---- MODULE Spec2Model ----
(***************************************************************************)
(* The STREAM sender of interledger-stream (send_money and its             *)
(* SendMoneyFuture), with the congestion controller it drives and the      *)
(* responses of the `next` service it calls; the STREAM packet codec       *)
(* (StreamPacketBuilder, StreamPacket, FrameIterator); and the receiver    *)
(* (ConnectionGenerator, StreamReceiverService, receive_money).            *)
(* Each part has its own specification; the variables of the other parts   *)
(* stay at rest in it.                                                     *)
(***************************************************************************)
EXTENDS Integers, Sequences, FiniteSets, TLC

VARIABLES
    sender,           \* the SendMoneyFuture built by send_money
    result,           \* what send_money has returned: "running" until it returns
    awaiting,         \* the .await send_money is stopped at: "get_ildcp_info",
                      \* "handle_request" (the latest Prepare is at `next`) or "none"
    overflow_checks,  \* build profile: TRUE = arithmetic overflow panics, FALSE = it wraps
    prepares,         \* history: the Prepares the SendMoneyFuture handed to
                      \* next.handle_request, in order
    last_response,    \* history: the latest response to one of them
    restored,         \* history: total amount given back to source_amount by Rejects
    stubs,            \* history: the test stubs that would have answered as `next` did so far
    builder,          \* codec: the StreamPacketBuilder last built from
    wire,             \* codec: the bytes last handed to from_bytes_unencrypted
    parsed,           \* codec: what from_bytes_unencrypted returned for them
    service,          \* receiver: the StreamReceiverService (its ConnectionGenerator)
    service_panic,    \* receiver: StreamReceiverService::new panicked on its server secret
    connections,      \* receiver: the (destination, shared secret) pairs generated so far
    handled,          \* receiver: the requests sent through the service, each with its answer
    forwarded,        \* receiver: the requests the service handed to its `next`
    controller,       \* controller: the CongestionController of src/stream, once created
    checks,           \* controller: whether integer overflow panics (debug) or wraps (release)
    called,           \* controller history: the latest call, with the controller before it
    rounds,           \* controller history: the prepare-then-fulfill rounds since new(), if
                      \* nothing else was called
    orders,           \* handlers: the sender after the same responses handled in two orders
    data_stream,      \* streams: a DataStream, with what was pushed to it and read from it
    money_stream      \* streams: a MoneyStream, with its pollers and what they were yielded

sender_vars == <<sender, result, awaiting, overflow_checks, prepares, last_response, restored, stubs>>
codec_vars == <<builder, wire, parsed>>
receiver_vars == <<service, service_panic, connections, handled, forwarded>>
controller_vars == <<controller, checks, called, rounds>>
stream_vars == <<orders, data_stream, money_stream>>
vars == <<sender_vars, codec_vars, receiver_vars, controller_vars, stream_vars>>

----------------------------------------------------------------------------
(* Bounds of the model *)

\* width of the model's u64 words
U64_BITS == 16
\* sends are explored while the next sequence number is at most MaxSeq
MaxSeq == 3
\* every source amount 0..MaxSmallSource is explored, next to the tests' 100
MaxSmallSource == 3

U64_MAX == 2^U64_BITS - 1

(* Program constants *)

\* MAX_TIME_SINCE_LAST_FULFILL, in seconds
MAX_TIME_SINCE_LAST_FULFILL == 30
\* the source amount of send_money_tests::stops_at_final_errors
TestSourceAmount == 100

SourceAmounts == (0..MaxSmallSource) \cup {TestSourceAmount}

\* how long one handle_request round trip (or an iteration that sends nothing)
\* may take, in seconds
Delays == {0, 15}
\* a round trip that by itself takes the whole time allowed since the last Fulfill
LongDelays == {MAX_TIME_SINCE_LAST_FULFILL}

----------------------------------------------------------------------------
(* Option<T> *)

None == <<>>
Some(v) == <<v>>
is_none(o) == o = <<>>
is_some(o) == o # <<>>
unwrap(o) == o[1]

\* Result<T, E>; a panic is an Err("panic")
Ok(value) == [ok |-> TRUE, value |-> value]
Err(error) == [ok |-> FALSE, value |-> error]

\* the codec before anything was built or decoded
codec_at_rest ==
    /\ builder = None
    /\ wire = <<>>
    /\ parsed = None

\* the receiving side before a service exists
receiver_at_rest ==
    /\ service = None
    /\ service_panic = FALSE
    /\ connections = {}
    /\ handled = <<>>
    /\ forwarded = <<>>

\* the congestion controller before it is created
controller_at_rest ==
    /\ controller = None
    /\ checks = FALSE
    /\ called = None
    /\ rounds = None

\* the handlers and the streams before anything is handed to them
streams_at_rest ==
    /\ orders = None
    /\ data_stream = None
    /\ money_stream = None

min(a, b) == IF a <= b THEN a ELSE b
max(a, b) == IF a >= b THEN a ELSE b

\* u64 `+` of a release build
wrapping_add(a, b) == (a + b) % (U64_MAX + 1)
\* u64 `+` overflows: a debug build panics here
add_overflows(a, b) == a + b > U64_MAX

----------------------------------------------------------------------------
(* ILP error codes and the payloads of responses *)

\* ErrorCode::class(): the first letter of the code
class(code) ==
    IF code[1] = "T" THEN "Temporary"
    ELSE IF code[1] = "R" THEN "Relative"
    ELSE "Final"

T00_INTERNAL_ERROR == <<"T", "00">>
T04_INSUFFICIENT_LIQUIDITY == <<"T", "04">>
F00_BAD_REQUEST == <<"F", "00">>
F08_AMOUNT_TOO_LARGE == <<"F", "08">>
F99_APPLICATION_ERROR == <<"F", "99">>
R00_TRANSFER_TIMED_OUT == <<"R", "00">>

RetryableCodes ==
    {T00_INTERNAL_ERROR, T04_INSUFFICIENT_LIQUIDITY, F08_AMOUNT_TOO_LARGE, F99_APPLICATION_ERROR}
FinalCodes == {F00_BAD_REQUEST, R00_TRANSFER_TIMED_OUT}
Codes == RetryableCodes \cup FinalCodes

\* frames a response's STREAM packet may carry
AssetXYZ == [frame |-> "ConnectionAssetDetails", source_asset_code |-> "XYZ", source_asset_scale |-> 9]
AssetABC == [frame |-> "ConnectionAssetDetails", source_asset_code |-> "ABC", source_asset_scale |-> 2]
MaxMoney == [frame |-> "StreamMaxMoney"]
FrameLists == {<<MaxMoney>>, <<AssetXYZ>>, <<MaxMoney, AssetABC>>, <<AssetXYZ, AssetABC>>}
NoFrames == {<<>>}

\* the data of a response: the encryption under the shared secret of a STREAM
\* packet, the body of an F08 reject, or bytes that are neither
Garbage == [tag |-> "garbage"]
Encrypted(packet) == [tag |-> "stream", packet |-> packet]
MaxPacketDetails == [tag |-> "max_packet_amount", amount_received |-> 4, max_amount |-> 1]

StreamPackets(types, amounts, frame_lists) ==
    [ilp_packet_type : types, prepare_amount : amounts, frames : frame_lists]

\* StreamPacket::from_encrypted: Ok(packet) or Err
from_encrypted(data) ==
    IF data.tag = "stream" THEN Some(data.packet) ELSE None

\* what next.handle_request may answer to a Prepare of `amount`
Fulfills(amount) ==
    [kind : {"Fulfill"}, code : {<<>>},
     data : {Garbage}
            \cup {Encrypted(p) : p \in StreamPackets({"Fulfill"}, {0, amount, U64_MAX}, FrameLists)}
            \cup {Encrypted(p) : p \in StreamPackets({"Reject"}, {amount}, {<<AssetXYZ>>})}]
Rejects(amount) ==
    [kind : {"Reject"}, code : Codes,
     data : {Garbage}
            \cup {Encrypted(p) : p \in StreamPackets({"Reject"}, {amount}, FrameLists)}]
    \cup [kind : {"Reject"}, code : {F08_AMOUNT_TOO_LARGE}, data : {MaxPacketDetails}]
Responses(amount) == Fulfills(amount) \cup Rejects(amount)

\* the answer of the stub of scenario S4: a Fulfill echoing the Prepare's amount
is_echo(response, amount) ==
    /\ response.kind = "Fulfill"
    /\ response.data.tag = "stream"
    /\ response.data.packet.ilp_packet_type = "Fulfill"
    /\ response.data.packet.prepare_amount = amount

----------------------------------------------------------------------------
(* CongestionController, as send_money drives it: one argument per call *)

CongestionController_new(start_amount, increase_amount, decrease_factor) ==
    [state |-> "SlowStart",
     increase_amount |-> increase_amount,
     decrease_factor |-> decrease_factor,
     max_packet_amount |-> None,
     amount_in_flight |-> 0,
     max_in_flight |-> start_amount]

\* max_in_flight - amount_in_flight of two u64: below 0 a build with overflow
\* checks panics and one without wraps; then the min with max_packet_amount
cc_get_max_amount(cc) ==
    LET amount_left_in_window ==
            IF cc.amount_in_flight <= cc.max_in_flight
            THEN Ok(cc.max_in_flight - cc.amount_in_flight)
            ELSE IF overflow_checks
            THEN Err("panic")
            ELSE Ok(cc.max_in_flight - cc.amount_in_flight + U64_MAX + 1)
    IN  IF ~amount_left_in_window.ok
        THEN amount_left_in_window
        ELSE IF is_some(cc.max_packet_amount)
        THEN Ok(min(amount_left_in_window.value, unwrap(cc.max_packet_amount)))
        ELSE amount_left_in_window

cc_prepare(cc, amount) ==
    IF amount > 0
    THEN [cc EXCEPT !.amount_in_flight = @ + amount]
    ELSE cc

cc_fulfill(cc, prepare_amount) ==
    LET c1 == [cc EXCEPT !.amount_in_flight = @ - prepare_amount]
    IN  IF c1.state = "SlowStart"
        THEN IF U64_MAX \div 2 >= c1.max_in_flight
             THEN [c1 EXCEPT !.max_in_flight = @ * 2]
             ELSE [c1 EXCEPT !.max_in_flight = U64_MAX]
        ELSE IF U64_MAX - c1.increase_amount >= c1.max_in_flight
             THEN [c1 EXCEPT !.max_in_flight = @ + c1.increase_amount]
             ELSE [c1 EXCEPT !.max_in_flight = U64_MAX]

\* F08: the limit the reject's data gives, else half of the rejected amount
lowered_max_packet_amount(prepare_amount, data) ==
    IF data.tag = "max_packet_amount"
    THEN (prepare_amount * data.max_amount) \div data.amount_received
    ELSE prepare_amount \div 2

cc_reject(cc, prepare_amount, reject) ==
    LET c1 == [cc EXCEPT !.amount_in_flight = @ - prepare_amount]
    IN  IF reject.code = T04_INSUFFICIENT_LIQUIDITY
        THEN [c1 EXCEPT !.state = "AvoidCongestion",
                        !.max_in_flight = max(@ \div c1.decrease_factor, 1)]
        ELSE IF reject.code = F08_AMOUNT_TOO_LARGE
        THEN LET lowered == lowered_max_packet_amount(prepare_amount, reject.data)
             IN  [c1 EXCEPT !.max_packet_amount =
                        IF is_some(@) THEN Some(min(unwrap(@), lowered)) ELSE Some(lowered)]
        ELSE c1

----------------------------------------------------------------------------
(* StreamDelivery *)

\* (mutation) the amount of the latest Fulfill replaces the delivered amount
increment_delivered_amount_replacing(receipt, amount) ==
    [receipt EXCEPT !.delivered_amount = amount]

increment_delivered_amount(receipt, amount) ==
    [receipt EXCEPT !.delivered_amount = wrapping_add(@, amount)]

\* the loop over packet.frames(): every ConnectionAssetDetails frame, in
\* order, overwrites both fields of the receipt
RECURSIVE read_asset_details(_, _)
read_asset_details(receipt, frames) ==
    IF frames = <<>>
    THEN receipt
    ELSE LET frame == Head(frames)
             r1 == IF frame.frame = "ConnectionAssetDetails"
                   THEN [receipt EXCEPT
                           !.delivered_asset_scale = Some(frame.source_asset_scale),
                           !.delivered_asset_code = Some(frame.source_asset_code)]
                   ELSE receipt
         IN  read_asset_details(r1, Tail(frames))

----------------------------------------------------------------------------
(* SendMoneyFuture *)

\* An Instant is represented by its age, the seconds elapsed since it was
\* taken: Instant::now() has age 0 and the passing of d seconds ages every
\* Instant by d
Instant_now == 0
elapsed(instant) == instant
aged(instant, d) == instant + d

\* d seconds pass while the future awaits next.handle_request
await(self, d) == [self EXCEPT !.last_fulfill_time = aged(@, d)]

\* account_details.ilp_address(): the address of the sending account, as the
\* tests' accounts have it
ilp_address == "example.destination"

\* (mutation) start amount and increase amount of the controller swapped
new_sender_swapped(source_amount) ==
    [state |-> "SendMoney",
     source_account |-> ilp_address,
     source_amount |-> source_amount,
     congestion_controller |->
         CongestionController_new(source_amount \div 10, source_amount, 2),
     receipt |-> [sent_amount |-> source_amount,
                  delivered_amount |-> 0,
                  delivered_asset_scale |-> None,
                  delivered_asset_code |-> None],
     should_send_source_account |-> TRUE,
     sequence |-> 1,
     rejected_packets |-> 0,
     error |-> None,
     last_fulfill_time |-> Instant_now]

\* the state send_money starts its loop with
new_sender(source_amount) ==
    [state |-> "SendMoney",
     source_account |-> ilp_address,
     source_amount |-> source_amount,
     congestion_controller |->
         CongestionController_new(source_amount, source_amount \div 10, 2),
     receipt |-> [sent_amount |-> source_amount,
                  delivered_amount |-> 0,
                  delivered_asset_scale |-> None,
                  delivered_asset_code |-> None],
     should_send_source_account |-> TRUE,
     sequence |-> 1,
     rejected_packets |-> 0,
     error |-> None,
     last_fulfill_time |-> Instant_now]

\* (mutation) the counter is advanced before it is read
next_sequence_preincrement(self) ==
    [seq |-> self.sequence + 1, self |-> [self EXCEPT !.sequence = @ + 1]]

\* returns the sequence to use and the future with its counter advanced
next_sequence(self) ==
    [seq |-> self.sequence, self |-> [self EXCEPT !.sequence = @ + 1]]

\* (mutation) a Fulfill whose data does not parse fails the send
handle_fulfill_strict(self, sequence, amount, fulfill) ==
    LET s1 == [self EXCEPT
                 !.congestion_controller = cc_fulfill(@, amount),
                 !.should_send_source_account = FALSE,
                 !.last_fulfill_time = Instant_now]
        packet == from_encrypted(fulfill.data)
    IN  IF is_some(packet)
        THEN IF unwrap(packet).ilp_packet_type = "Fulfill"
             THEN LET r1 == IF is_none(s1.receipt.delivered_asset_scale)
                            THEN read_asset_details(s1.receipt, unwrap(packet).frames)
                            ELSE s1.receipt
                  IN  [s1 EXCEPT !.receipt =
                          increment_delivered_amount(r1, unwrap(packet).prepare_amount)]
             ELSE s1
        ELSE [s1 EXCEPT !.error = Some([kind |-> "SendMoneyError", code |-> <<>>])]

\* (mutation) the packet in the data of a Fulfill counts whatever its type
handle_fulfill_untyped(self, sequence, amount, fulfill) ==
    LET s1 == [self EXCEPT
                 !.congestion_controller = cc_fulfill(@, amount),
                 !.should_send_source_account = FALSE,
                 !.last_fulfill_time = Instant_now]
        packet == from_encrypted(fulfill.data)
    IN  IF is_some(packet)
        THEN LET r1 == IF is_none(s1.receipt.delivered_asset_scale)
                       THEN read_asset_details(s1.receipt, unwrap(packet).frames)
                       ELSE s1.receipt
             IN  [s1 EXCEPT !.receipt =
                     increment_delivered_amount(r1, unwrap(packet).prepare_amount)]
        ELSE s1

handle_fulfill(self, sequence, amount, fulfill) ==
    LET s1 == [self EXCEPT
                 !.congestion_controller = cc_fulfill(@, amount),
                 !.should_send_source_account = FALSE,
                 !.last_fulfill_time = Instant_now]
        packet == from_encrypted(fulfill.data)
    IN  IF is_some(packet) /\ unwrap(packet).ilp_packet_type = "Fulfill"
        THEN LET r1 == IF is_none(s1.receipt.delivered_asset_scale)
                       THEN read_asset_details(s1.receipt, unwrap(packet).frames)
                       ELSE s1.receipt
             IN  [s1 EXCEPT !.receipt =
                     increment_delivered_amount(r1, unwrap(packet).prepare_amount)]
        ELSE s1

\* the addition in increment_delivered_amount overflows for this Fulfill
fulfill_overflows(self, fulfill) ==
    LET packet == from_encrypted(fulfill.data)
    IN  /\ is_some(packet)
        /\ unwrap(packet).ilp_packet_type = "Fulfill"
        /\ add_overflows(self.receipt.delivered_amount, unwrap(packet).prepare_amount)

\* (mutation) Relative errors are taken for retryable, like Temporary ones
latched_error_relative_retried(reject) ==
    IF class(reject.code) # "Final" THEN None
    ELSE IF reject.code = F08_AMOUNT_TOO_LARGE THEN None
    ELSE IF reject.code = F99_APPLICATION_ERROR THEN None
    ELSE Some([kind |-> "SendMoneyError", code |-> reject.code])

\* (mutation) the F99 arm is missing
latched_error_without_f99(reject) ==
    IF class(reject.code) = "Temporary" THEN None
    ELSE IF reject.code = F08_AMOUNT_TOO_LARGE THEN None
    ELSE Some([kind |-> "SendMoneyError", code |-> reject.code])

\* the match on (reject.code().class(), reject.code()): the error to latch, if any
latched_error(reject) ==
    IF class(reject.code) = "Temporary" THEN None
    ELSE IF reject.code = F08_AMOUNT_TOO_LARGE THEN None
    ELSE IF reject.code = F99_APPLICATION_ERROR THEN None
    ELSE Some([kind |-> "SendMoneyError", code |-> reject.code])

\* (mutation) the rejected amount is not given back to source_amount
handle_reject_without_restore(self, sequence, amount, reject) ==
    LET s1 == [self EXCEPT
                 !.congestion_controller = cc_reject(@, amount, reject),
                 !.rejected_packets = @ + 1]
        packet == from_encrypted(reject.data)
        s2 == IF /\ \/ is_none(s1.receipt.delivered_asset_scale)
                    \/ is_none(s1.receipt.delivered_asset_code)
                 /\ is_some(packet)
              THEN [s1 EXCEPT !.receipt = read_asset_details(@, unwrap(packet).frames)]
              ELSE s1
    IN  IF is_some(latched_error(reject))
        THEN [s2 EXCEPT !.error = latched_error(reject)]
        ELSE s2

\* (mutation) the asset details are read from every Reject, set or not
handle_reject_unguarded(self, sequence, amount, reject) ==
    LET s1 == [self EXCEPT
                 !.source_amount = @ + amount,
                 !.congestion_controller = cc_reject(@, amount, reject),
                 !.rejected_packets = @ + 1]
        packet == from_encrypted(reject.data)
        s2 == IF is_some(packet)
              THEN [s1 EXCEPT !.receipt = read_asset_details(@, unwrap(packet).frames)]
              ELSE s1
    IN  IF is_some(latched_error(reject))
        THEN [s2 EXCEPT !.error = latched_error(reject)]
        ELSE s2

handle_reject(self, sequence, amount, reject) ==
    LET s1 == [self EXCEPT
                 !.source_amount = @ + amount,
                 !.congestion_controller = cc_reject(@, amount, reject),
                 !.rejected_packets = @ + 1]
        packet == from_encrypted(reject.data)
        s2 == IF /\ \/ is_none(s1.receipt.delivered_asset_scale)
                    \/ is_none(s1.receipt.delivered_asset_code)
                 /\ is_some(packet)
              THEN [s1 EXCEPT !.receipt = read_asset_details(@, unwrap(packet).frames)]
              ELSE s1
    IN  IF is_some(latched_error(reject))
        THEN [s2 EXCEPT !.error = latched_error(reject)]
        ELSE s2

handle_response(self, sequence, amount, response) ==
    IF response.kind = "Fulfill"
    THEN handle_fulfill(self, sequence, amount, response)
    ELSE handle_reject(self, sequence, amount, response)

\* (mutation) the controller is not asked
money_amount_uncontrolled(self) ==
    self.source_amount

\* amount of the Prepare try_send_money sends now; 0: it sends nothing
money_amount(self) ==
    min(self.source_amount, cc_get_max_amount(self.congestion_controller).value)

\* (mutation) the source account goes into every money packet
money_frames_always_addressed(self) ==
    << [frame |-> "StreamMoney", stream_id |-> 1, shares |-> 1],
       [frame |-> "ConnectionNewAddress", source_account |-> self.source_account] >>

\* the frames of a money packet: StreamMoney, and ConnectionNewAddress while
\* should_send_source_account is set
money_frames(self) ==
    << [frame |-> "StreamMoney", stream_id |-> 1, shares |-> 1] >>
    \o (IF self.should_send_source_account
        THEN << [frame |-> "ConnectionNewAddress", source_account |-> self.source_account] >>
        ELSE << >>)

\* the Prepare try_send_money builds: its amount and the STREAM packet in its data
money_prepare(self) ==
    [amount |-> money_amount(self),
     sequence |-> next_sequence(self).seq,
     ilp_packet_type |-> "Prepare",
     prepare_amount |-> 0,
     frames |-> money_frames(self)]

\* try_send_money up to the .await on next.handle_request: the future with the
\* Prepare money_prepare(self) at `next`
try_send_money(self) ==
    LET amount == money_amount(self)
    IN  IF amount = 0
        THEN self
        ELSE LET s1 == [self EXCEPT !.source_amount = @ - amount]
                 n == next_sequence(s1)
             IN  [n.self EXCEPT !.congestion_controller = cc_prepare(@, amount)]

\* the Prepare try_send_connection_close builds
close_prepare(self) ==
    [amount |-> 0,
     sequence |-> next_sequence(self).seq,
     ilp_packet_type |-> "Prepare",
     prepare_amount |-> 0,
     frames |-> << [frame |-> "ConnectionClose", code |-> "NoError", message |-> <<>>] >>]

\* try_send_connection_close up to the .await on next.handle_request
try_send_connection_close(self) ==
    next_sequence(self).self


----------------------------------------------------------------------------
(* send_money: one action per stretch of it between two .await points *)

\* stub services to put in the place of `next`:
\*   fulfill_echo      fulfills every Prepare, echoing its amount in a STREAM Fulfill
\*   fulfill_garbage   fulfills every Prepare with data that is no STREAM packet
\*   reject_F00        rejects every Prepare with F00_BAD_REQUEST and no data
\*   reject_retryable  rejects every Prepare with a Temporary code, F08 or F99
Stubs == {"fulfill_echo", "fulfill_garbage", "reject_F00", "reject_retryable"}
answers_as(stub, response, amount) ==
    CASE stub = "fulfill_echo" -> is_echo(response, amount)
      [] stub = "fulfill_garbage" ->
            response.kind = "Fulfill" /\ is_none(from_encrypted(response.data))
      [] stub = "reject_F00" ->
            /\ response.kind = "Reject"
            /\ response.code = F00_BAD_REQUEST
            /\ response.data = Garbage
      [] stub = "reject_retryable" ->
            response.kind = "Reject" /\ response.code \in RetryableCodes

\* what the history keeps of a response: <<"Fulfill">> or the reject code, and the
\* header of the STREAM packet in its data when the data decodes
NoResponse ==
    [outcome |-> <<>>, decoded |-> FALSE, ilp_packet_type |-> "none", prepare_amount |-> 0,
     asset_codes |-> <<>>]
RECURSIVE asset_codes(_)
asset_codes(frames) ==
    IF frames = <<>> THEN <<>>
    ELSE (IF Head(frames).frame = "ConnectionAssetDetails"
          THEN <<Head(frames).source_asset_code>> ELSE <<>>) \o asset_codes(Tail(frames))
summary(response) ==
    LET packet == from_encrypted(response.data)
    IN  [outcome |-> IF response.kind = "Fulfill" THEN <<"Fulfill">> ELSE response.code,
         decoded |-> is_some(packet),
         ilp_packet_type |-> IF is_some(packet) THEN unwrap(packet).ilp_packet_type ELSE "none",
         prepare_amount |-> IF is_some(packet) THEN unwrap(packet).prepare_amount ELSE 0,
         asset_codes |-> IF is_some(packet) THEN asset_codes(unwrap(packet).frames) ELSE <<>>]

\* send_money is called: the future stands at its first .await, the ILDCP
\* request; `sender` is the SendMoneyFuture that the arguments are to give
Init ==
    /\ \E source_amount \in SourceAmounts : sender = new_sender(source_amount)
    /\ result = "running"
    /\ awaiting = "get_ildcp_info"
    /\ overflow_checks \in BOOLEAN
    /\ prepares = <<>>
    /\ last_response = NoResponse
    /\ restored = 0
    /\ stubs = Stubs
    /\ codec_at_rest
    /\ receiver_at_rest
    /\ controller_at_rest
    /\ streams_at_rest

\* (mutation) the limit itself is not yet a timeout
timed_out_late(self) == elapsed(self.last_fulfill_time) > MAX_TIME_SINCE_LAST_FULFILL

\* (mutation) completion is checked before the timer
ReturnOk_before_timeout ==
    /\ result = "running"
    /\ awaiting = "none"
    /\ is_none(sender.error)
    /\ sender.source_amount = 0
    /\ sender.state # "SendMoney"
    /\ sender' = [sender EXCEPT !.state = "Closed"]
    /\ result' = "Ok"
    /\ UNCHANGED <<awaiting, overflow_checks, prepares, last_response, restored, stubs>>
    /\ UNCHANGED <<codec_vars, receiver_vars, controller_vars, stream_vars>>

\* sender.last_fulfill_time.elapsed() >= MAX_TIME_SINCE_LAST_FULFILL
timed_out(self) == elapsed(self.last_fulfill_time) >= MAX_TIME_SINCE_LAST_FULFILL

\* the loop is still running and neither of its first two checks returns
Continues ==
    /\ result = "running"
    /\ awaiting = "none"
    /\ is_none(sender.error)
    /\ ~timed_out(sender)

\* a debug build panics in increment_delivered_amount
Panics(response) ==
    /\ overflow_checks
    /\ response.kind = "Fulfill"
    /\ fulfill_overflows(sender, response)

\* the Prepare that is at `next`, or was last
HandledPrepare == prepares[Len(prepares)]

\* the future hands `prepare` to next.handle_request and stops at the .await
HandleRequest(prepare, sending) ==
    /\ prepares' = Append(prepares, prepare)
    /\ sender' = sending
    /\ awaiting' = "handle_request"
    /\ UNCHANGED <<result, overflow_checks, last_response, restored, stubs>>
    /\ UNCHANGED <<codec_vars, receiver_vars, controller_vars, stream_vars>>

\* get_ildcp_info(&mut service, from_account).await?: `next` answers the ILDCP
\* request and the SendMoneyFuture is built, or the request fails and
\* send_money returns ConnectionError; the stub services all answer it
GetIldcpInfo(answered) ==
    /\ result = "running"
    /\ awaiting = "get_ildcp_info"
    /\ awaiting' = "none"
    /\ IF answered
       THEN result' = result /\ stubs' = stubs
       ELSE result' = "ConnectionError" /\ stubs' = {}
    /\ UNCHANGED <<sender, overflow_checks, prepares, last_response, restored>>
    /\ UNCHANGED <<codec_vars, receiver_vars, controller_vars, stream_vars>>

\* next.handle_request(prepare) returns `response` after d seconds and
\* handle_fulfill or handle_reject is run on it; a debug build panics in
\* increment_delivered_amount with the rest of handle_fulfill done
HandleResponse(d, response) ==
    /\ result = "running"
    /\ awaiting = "handle_request"
    /\ awaiting' = "none"
    /\ last_response' = summary(response)
    /\ restored' = IF response.kind = "Reject"
                   THEN restored + HandledPrepare.amount
                   ELSE restored
    /\ stubs' = {stub \in stubs : answers_as(stub, response, HandledPrepare.amount)}
    /\ LET after == handle_response(await(sender, d), HandledPrepare.sequence,
                                    HandledPrepare.amount, response)
       IN  IF Panics(response)
           THEN /\ result' = "panic"
                /\ sender' = [after EXCEPT !.receipt.delivered_amount =
                                               sender.receipt.delivered_amount]
           ELSE /\ result' = result
                /\ sender' = after
    /\ UNCHANGED <<overflow_checks, prepares>>
    /\ UNCHANGED <<codec_vars, receiver_vars, controller_vars, stream_vars>>

\* if let Some(error) = sender.error.take() { return Err(error) }
ReturnError ==
    /\ result = "running"
    /\ awaiting = "none"
    /\ is_some(sender.error)
    /\ result' = unwrap(sender.error).kind
    /\ sender' = [sender EXCEPT !.error = None]
    /\ UNCHANGED <<awaiting, overflow_checks, prepares, last_response, restored, stubs>>
    /\ UNCHANGED <<codec_vars, receiver_vars, controller_vars, stream_vars>>

\* if sender.last_fulfill_time.elapsed() >= MAX_TIME_SINCE_LAST_FULFILL
ReturnTimeout ==
    /\ result = "running"
    /\ awaiting = "none"
    /\ is_none(sender.error)
    /\ timed_out(sender)
    /\ result' = "TimeoutError"
    /\ UNCHANGED <<sender, awaiting, overflow_checks, prepares, last_response, restored, stubs>>
    /\ UNCHANGED <<codec_vars, receiver_vars, controller_vars, stream_vars>>

\* (mutation) the state is left at SendMoney when the close is sent
SendConnectionClose_still_sending ==
    /\ Continues
    /\ sender.source_amount = 0
    /\ sender.state = "SendMoney"
    /\ HandleRequest(close_prepare(sender), try_send_connection_close(sender))

\* source_amount == 0 in state SendMoney: send the connection close
SendConnectionClose ==
    /\ Continues
    /\ sender.source_amount = 0
    /\ sender.state = "SendMoney"
    /\ LET closing == [sender EXCEPT !.state = "Closing"]
       IN  HandleRequest(close_prepare(closing), try_send_connection_close(closing))

\* source_amount == 0 after the close: return the receipt
ReturnOk ==
    /\ Continues
    /\ sender.source_amount = 0
    /\ sender.state # "SendMoney"
    /\ sender' = [sender EXCEPT !.state = "Closed"]
    /\ result' = "Ok"
    /\ UNCHANGED <<awaiting, overflow_checks, prepares, last_response, restored, stubs>>
    /\ UNCHANGED <<codec_vars, receiver_vars, controller_vars, stream_vars>>

\* source_amount != 0: try_send_money, which sends a Prepare unless the
\* controller leaves no room, and then the iteration takes d seconds
TrySendMoney(d) ==
    /\ Continues
    /\ sender.source_amount # 0
    /\ IF ~cc_get_max_amount(sender.congestion_controller).ok
       THEN /\ result' = "panic"
            /\ UNCHANGED <<sender, awaiting, overflow_checks, prepares, last_response,
                           restored, stubs>>
            /\ UNCHANGED <<codec_vars, receiver_vars, controller_vars, stream_vars>>
       ELSE IF money_amount(sender) = 0
       THEN /\ sender' = await(sender, d)
            /\ UNCHANGED <<result, awaiting, overflow_checks, prepares, last_response,
                           restored, stubs>>
            /\ UNCHANGED <<codec_vars, receiver_vars, controller_vars, stream_vars>>
       ELSE HandleRequest(money_prepare(sender), try_send_money(sender))

Next ==
    \/ \E answered \in BOOLEAN : GetIldcpInfo(answered)
    \/ ReturnError
    \/ ReturnTimeout
    \/ sender.sequence <= MaxSeq /\ SendConnectionClose
    \/ ReturnOk
    \/ sender.sequence <= MaxSeq /\ \E d \in Delays \cup LongDelays : TrySendMoney(d)
    \/ /\ awaiting = "handle_request"
       /\ \E d \in Delays \cup LongDelays : \E response \in Responses(HandledPrepare.amount) :
              HandleResponse(d, response)

Spec == Init /\ [][Next]_vars

\* The loop when every request to `next` is answered and the clock advances:
\* each iteration takes time, and the loop is always scheduled again
LiveNext ==
    \/ \E answered \in BOOLEAN : GetIldcpInfo(answered)
    \/ ReturnError
    \/ ReturnTimeout
    \/ SendConnectionClose
    \/ ReturnOk
    \/ \E d \in Delays \ {0} : TrySendMoney(d)
    \/ /\ awaiting = "handle_request"
       /\ \E d \in Delays \ {0} : \E response \in Responses(HandledPrepare.amount) :
              HandleResponse(d, response)

\* explored for the small source amounts, whose runs all end within a few rounds
LiveInit == Init /\ sender.source_amount <= MaxSmallSource

LiveSpec == LiveInit /\ [][LiveNext]_vars /\ WF_vars(LiveNext)

----------------------------------------------------------------------------
(* Vocabulary of the properties *)

is_money(prepare) == prepare.frames[1].frame = "StreamMoney"
is_close(prepare) == Len(prepare.frames) = 1 /\ prepare.frames[1].frame = "ConnectionClose"

\* this step handed a Prepare to next.handle_request
Sends == Len(prepares') = Len(prepares) + 1
SentPrepare == prepares'[Len(prepares')]
\* this step handled the response to HandledPrepare, the Prepare at `next`
Handles == awaiting = "handle_request" /\ awaiting' = "none"

rejected(outcome) == Len(outcome) = 2
fulfilled(outcome) == outcome = <<"Fulfill">>
\* a reject code the sender retries after: Temporary class, F08 or F99
retried(code) ==
    rejected(code)
    /\ (code[1] = "T" \/ code = F08_AMOUNT_TOO_LARGE \/ code = F99_APPLICATION_ERROR)
\* any other reject code
terminal(code) == rejected(code) /\ ~retried(code)

RECURSIVE sum_of_amounts(_)
sum_of_amounts(log) ==
    IF log = <<>> THEN 0 ELSE Head(log).amount + sum_of_amounts(Tail(log))

\* send_money returned from its loop, with the receipt or an error
returned == result \in {"Ok", "SendMoneyError", "TimeoutError"}

----------------------------------------------------------------------------
\* C1: a Reject of a money Prepare with a code that is neither Temporary, F08
\* nor F99 latches an error, and the next iteration returns SendMoneyError
\* without sending any Prepare; with the stub that always rejects with F00 and
\* source_amount 100 exactly one Prepare is sent.
C1_TerminalRejectStops ==
    /\ [][(Handles /\ is_money(HandledPrepare) /\ terminal(last_response'.outcome))
            => (is_some(sender'.error) /\ result' = "running")]_vars
    /\ [][(result = "running" /\ is_some(sender.error))
            => (result' = "SendMoneyError" /\ prepares' = prepares)]_vars
    /\ [](("reject_F00" \in stubs /\ sender.receipt.sent_amount = TestSourceAmount)
            => \/ prepares = <<>> /\ result = "running"
               \/ Len(prepares) = 1 /\ result \in {"running", "SendMoneyError"})

C1_Witness ==
    /\ result = "SendMoneyError"
    /\ "reject_F00" \in stubs
    /\ sender.receipt.sent_amount = TestSourceAmount
    /\ Len(prepares) = 1
    /\ prepares[1].amount = TestSourceAmount

\* C2: a Reject of a money Prepare with a Temporary code, F08 or F99 latches no
\* error and gives the amount back to source_amount; unless the timer has
\* expired, the next iteration does not return but sends another Prepare.
C2_Original ==
    /\ [][(Handles /\ is_money(HandledPrepare) /\ retried(last_response'.outcome))
            => /\ is_none(sender'.error)
               /\ sender'.source_amount = sender.source_amount + HandledPrepare.amount
               /\ sender'.state = "SendMoney"
               /\ result' = "running"]_vars
    /\ [][(/\ result = "running"
           /\ awaiting = "none"
           /\ prepares # <<>>
           /\ is_money(HandledPrepare)
           /\ retried(last_response.outcome)
           /\ ~timed_out(sender))
            => /\ result' = "running"
               /\ Sends
               /\ is_money(SentPrepare)
               /\ SentPrepare.amount > 0]_vars

\* C2 (amended): a Reject of a money Prepare with a Temporary code, F08 or F99
\* latches no error and gives the amount back to source_amount; unless the
\* timer has expired, the next iteration does not return but runs
\* try_send_money, which sends another Prepare unless F08 rejects have brought
\* the controller's max_packet_amount down to 0: then the iteration sends
\* nothing and does not return either.
C2_Amended ==
    /\ [][(Handles /\ is_money(HandledPrepare) /\ retried(last_response'.outcome))
            => /\ is_none(sender'.error)
               /\ sender'.source_amount = sender.source_amount + HandledPrepare.amount
               /\ sender'.source_amount
                     = sender.receipt.sent_amount - (sum_of_amounts(prepares) - restored')
               /\ sender'.state = "SendMoney"
               /\ result' = "running"]_vars
    /\ [][(/\ result = "running"
           /\ awaiting = "none"
           /\ prepares # <<>>
           /\ is_money(HandledPrepare)
           /\ retried(last_response.outcome)
           /\ ~timed_out(sender))
            => /\ result' = "running"
               /\ IF sender.congestion_controller.max_packet_amount = Some(0)
                  THEN prepares' = prepares
                  ELSE Sends /\ is_money(SentPrepare) /\ SentPrepare.amount > 0]_vars

\* the stub rejects with a retried code: after the first money Prepare a second
\* one was sent, and what was rejected is back in source_amount
C2_Witness ==
    /\ Len(prepares) >= 2
    /\ "reject_retryable" \in stubs
    /\ is_money(prepares[2])
    /\ sender.source_amount = sender.receipt.sent_amount
    /\ result = "running"

\* C3: with the stub that fulfills every Prepare echoing its amount and
\* source_amount 100, the sender sends one money Prepare of 100, then the
\* connection close of amount 0, and returns Ok with delivered_amount 100 and
\* sent_amount 100 (TimeoutError if a round trip outlasts the timer).
HappyPrepares ==
    << [amount |-> TestSourceAmount, sequence |-> 1, ilp_packet_type |-> "Prepare",
        prepare_amount |-> 0,
        frames |-> << [frame |-> "StreamMoney", stream_id |-> 1, shares |-> 1],
                      [frame |-> "ConnectionNewAddress", source_account |-> ilp_address] >>],
       [amount |-> 0, sequence |-> 2, ilp_packet_type |-> "Prepare",
        prepare_amount |-> 0,
        frames |-> << [frame |-> "ConnectionClose", code |-> "NoError", message |-> <<>>] >>] >>

C3_HappyPath ==
    ("fulfill_echo" \in stubs /\ sender.receipt.sent_amount = TestSourceAmount)
        => /\ result \in {"running", "Ok", "TimeoutError"}
           /\ result = "TimeoutError" => timed_out(sender)
           /\ Len(prepares) <= 2
           /\ prepares = SubSeq(HappyPrepares, 1, Len(prepares))
           /\ result = "Ok"
                => /\ prepares = HappyPrepares
                   /\ sender.receipt.delivered_amount = TestSourceAmount
                   /\ sender.receipt.sent_amount = TestSourceAmount

C3_Witness ==
    /\ result = "Ok"
    /\ "fulfill_echo" \in stubs
    /\ prepares = HappyPrepares
    /\ sender.receipt.delivered_amount = TestSourceAmount

\* C4 as stated: whenever send_money returns, with Ok or with an error, the
\* amounts sent minus the amounts restored on Rejects equal receipt.sent_amount.
C4_Original ==
    returned => sum_of_amounts(prepares) - restored = sender.receipt.sent_amount

\* C4, amended: when send_money returns Ok the amounts sent minus the amounts
\* restored on Rejects equal receipt.sent_amount; when it returns an error they
\* equal receipt.sent_amount minus the source_amount still to send.
C4_Amended ==
    /\ result = "Ok"
         => sum_of_amounts(prepares) - restored = sender.receipt.sent_amount
    /\ result \in {"SendMoneyError", "TimeoutError"}
         => sum_of_amounts(prepares) - restored
              = sender.receipt.sent_amount - sender.source_amount

C4_Witness ==
    /\ result = "Ok"
    /\ restored > 0
    /\ sender.receipt.sent_amount > 0

\* C5 as stated: once the connection close has been sent, whatever it is
\* answered, the state goes on to Closed and send_money returns Ok.
C5_Original ==
    (/\ prepares # <<>>
     /\ is_close(prepares[Len(prepares)])
     /\ returned
     /\ ~timed_out(sender))
        => (result = "Ok" /\ sender.state = "Closed")

\* C6: send_money terminates; once 30 seconds have elapsed since the last
\* Fulfill (or the start) the next iteration returns TimeoutError, and not
\* before; a Fulfill resets the timer; against the stub that only ever rejects
\* with retryable codes a send of a positive amount ends in TimeoutError.
C6_Terminates ==
    /\ <>(result # "running")
    /\ [](result = "TimeoutError" => timed_out(sender))
    /\ [][(/\ result = "running"
           /\ awaiting = "none"
           /\ is_none(sender.error)
           /\ elapsed(sender.last_fulfill_time) >= MAX_TIME_SINCE_LAST_FULFILL)
            => (result' = "TimeoutError" /\ prepares' = prepares)]_vars
    /\ [][(Handles /\ fulfilled(last_response'.outcome))
            => elapsed(sender'.last_fulfill_time) = 0]_vars
    /\ []((/\ "reject_retryable" \in stubs
           /\ sender.receipt.sent_amount > 0
           /\ result # "running")
            => result = "TimeoutError")

C6_Witness ==
    /\ result = "TimeoutError"
    /\ "reject_retryable" \in stubs
    /\ Len(prepares) >= 2

\* C7 as stated: delivered_amount never decreases from one step to the next,
\* whatever prepare_amount the Fulfills report, and sent_amount stays what it was.
C7_Original ==
    [][/\ sender'.receipt.delivered_amount >= sender.receipt.delivered_amount
       /\ sender'.receipt.sent_amount = sender.receipt.sent_amount]_vars

\* C8: once the delivered asset code and scale are set, no later response
\* changes them (and they are always set together).
C8_AssetDetailsSetOnce ==
    /\ [](is_some(sender.receipt.delivered_asset_scale)
            <=> is_some(sender.receipt.delivered_asset_code))
    /\ [][(\/ is_some(sender.receipt.delivered_asset_scale)
           \/ is_some(sender.receipt.delivered_asset_code))
            => /\ sender'.receipt.delivered_asset_scale = sender.receipt.delivered_asset_scale
               /\ sender'.receipt.delivered_asset_code = sender.receipt.delivered_asset_code]_vars

\* a later response carried other asset details than the ones already set
C8_Witness ==
    /\ sender.receipt.delivered_asset_code = Some("XYZ")
    /\ sender.receipt.delivered_asset_scale = Some(9)
    /\ last_response.decoded
    /\ last_response.asset_codes = <<"ABC">>

\* C9: a response whose data is no STREAM packet does not fail the send: such a
\* Fulfill keeps its amount sent, tells the controller fulfill, resets the
\* timer, leaves the receipt alone and latches nothing; such a Reject latches
\* an error only for its code; send_money can still return Ok.
C9_UndecodableResponses ==
    /\ [][(Handles /\ fulfilled(last_response'.outcome) /\ ~last_response'.decoded)
            => /\ sender'.source_amount = sender.source_amount
               /\ sender'.congestion_controller =
                    cc_fulfill(sender.congestion_controller, HandledPrepare.amount)
               /\ sender'.last_fulfill_time = Instant_now
               /\ sender'.receipt = sender.receipt
               /\ is_none(sender'.error)
               /\ result' = "running"]_vars
    /\ [][(Handles /\ rejected(last_response'.outcome) /\ ~last_response'.decoded)
            => /\ sender'.receipt = sender.receipt
               /\ is_some(sender'.error) <=> terminal(last_response'.outcome)
               /\ result' = "running"]_vars
    /\ []("fulfill_garbage" \in stubs
            => /\ result \in {"running", "Ok", "TimeoutError"}
               /\ sender.receipt.delivered_amount = 0
               /\ is_none(sender.receipt.delivered_asset_code)
               /\ is_none(sender.receipt.delivered_asset_scale))

C9_Witness ==
    /\ result = "Ok"
    /\ "fulfill_garbage" \in stubs
    /\ Len(prepares) = 2
    /\ sender.receipt.sent_amount = TestSourceAmount
    /\ sender.receipt.delivered_amount = 0

\* C10: the Prepares of one send_money call carry the sequence numbers 1, 2,
\* 3, ... in send order: the close takes the next number and a retry after a
\* Reject a fresh one.
C10_SequencesCountUp ==
    /\ \A i \in 1..Len(prepares) : prepares[i].sequence = i
    /\ sender.sequence = Len(prepares) + 1

\* a rejected amount sent again, then the close
C10_Witness ==
    /\ result = "Ok"
    /\ Len(prepares) = 3
    /\ restored > 0
    /\ is_close(prepares[3])
    /\ prepares[3].sequence = 3

----------------------------------------------------------------------------
(* OER: the variable-length integers and octet strings of interledger_packet *)

\* the Stream Protocol's version
STREAM_VERSION == 1
\* size_of::<u64>() in bytes: the longest var_uint a reader accepts
U64_BYTES == (U64_BITS + 7) \div 8

\* Result<T, ParseError> of a read: the value and the reader after it, or the
\* error and the reader where the failing read left it
Read(value, rest) == [ok |-> TRUE, value |-> value, rest |-> rest]
Fail(rest) == [ok |-> FALSE, value |-> <<>>, rest |-> rest]
\* Err(ParseError::Io) of a failing read of the buffer, with the kind of the
\* io::Error: "UnexpectedEof" where bytes are missing, "InvalidData" where the
\* bytes that are there are no length or no integer
Io(kind, rest) == [ok |-> FALSE, value |-> kind, rest |-> rest]

Take(bytes, n) == SubSeq(bytes, 1, n)
Drop(bytes, n) == SubSeq(bytes, n + 1, Len(bytes))

\* the big-endian bytes of uint, `size` of them
RECURSIVE put_uint_be(_, _)
put_uint_be(uint, size) ==
    IF size = 0 THEN <<>> ELSE Append(put_uint_be(uint \div 256, size - 1), uint % 256)

\* the big-endian value of bytes
RECURSIVE read_uint_be(_)
read_uint_be(bytes) ==
    IF bytes = <<>> THEN 0
    ELSE read_uint_be(Take(bytes, Len(bytes) - 1)) * 256 + bytes[Len(bytes)]

\* the number of bytes of the shortest big-endian form, at least one
RECURSIVE predict_var_uint_size(_)
predict_var_uint_size(value) ==
    IF value < 256 THEN 1 ELSE 1 + predict_var_uint_size(value \div 256)

put_u8(buf, byte) == Append(buf, byte)

\* lengths 0..127 in one byte, larger ones as 0x80 + length of the length, then the length
put_var_octet_string_length(buf, length) ==
    IF length < 128 THEN Append(buf, length)
    ELSE LET length_of_length == predict_var_uint_size(length)
         IN  Append(buf, 128 + length_of_length) \o put_uint_be(length, length_of_length)

put_var_octet_string(buf, bytes) ==
    put_var_octet_string_length(buf, Len(bytes)) \o bytes

put_var_uint(buf, uint) ==
    LET size == predict_var_uint_size(uint)
    IN  put_var_octet_string_length(buf, size) \o put_uint_be(uint, size)

read_u8(reader) ==
    IF reader = <<>> THEN Io("UnexpectedEof", reader) ELSE Read(Head(reader), Tail(reader))

read_var_octet_string_length(reader) ==
    LET first == read_u8(reader)
    IN  IF ~first.ok THEN first
        ELSE IF first.value < 128 THEN first
        ELSE LET length_of_length == first.value - 128
             IN  IF length_of_length = 0 \/ length_of_length > U64_BYTES
                 THEN Io("InvalidData", first.rest)
                 ELSE IF Len(first.rest) < length_of_length
                 THEN Io("UnexpectedEof", first.rest)
                 ELSE Read(read_uint_be(Take(first.rest, length_of_length)),
                           Drop(first.rest, length_of_length))

\* the `length` bytes that follow a length prefix
octets_after(length) ==
    IF ~length.ok THEN length
    ELSE IF Len(length.rest) < length.value THEN Io("UnexpectedEof", length.rest)
    ELSE Read(Take(length.rest, length.value), Drop(length.rest, length.value))

read_var_octet_string(reader) == octets_after(read_var_octet_string_length(reader))

\* the octet string without moving the reader
peeked(reader, string) ==
    IF string.ok THEN Read(string.value, reader) ELSE Io(string.value, reader)
peek_var_octet_string(reader) == peeked(reader, read_var_octet_string(reader))

skipped(string) ==
    IF string.ok THEN Read(<<>>, string.rest) ELSE string
skip_var_octet_string(reader) == skipped(read_var_octet_string(reader))

\* the integer of `size` bytes that follows a length prefix: a var_uint of no
\* bytes, or of more bytes than a u64 has, is an error
uint_after(size) ==
    IF ~size.ok THEN size
    ELSE IF size.value = 0 \/ size.value > U64_BYTES THEN Io("InvalidData", size.rest)
    ELSE IF Len(size.rest) < size.value THEN Io("UnexpectedEof", size.rest)
    ELSE Read(read_uint_be(Take(size.rest, size.value)), Drop(size.rest, size.value))

read_var_uint(reader) == uint_after(read_var_octet_string_length(reader))

\* u64::MAX once the octet string is skipped
saturated(skip) ==
    IF skip.ok THEN Read(U64_MAX, skip.rest) ELSE skip

\* a var_uint of more bytes than a u64 has reads as u64::MAX
saturating(reader, peek) ==
    IF ~peek.ok THEN peek
    ELSE IF Len(peek.value) > U64_BYTES THEN saturated(skip_var_octet_string(reader))
    ELSE read_var_uint(reader)
\* (mutation) u64::MAX is returned and the octet string is not skipped
saturating_read_var_uint_unskipped(reader) ==
    IF ~peek_var_octet_string(reader).ok THEN peek_var_octet_string(reader)
    ELSE IF Len(peek_var_octet_string(reader).value) > U64_BYTES THEN Read(U64_MAX, reader)
    ELSE read_var_uint(reader)

saturating_read_var_uint(reader) == saturating(reader, peek_var_octet_string(reader))

\* str::from_utf8(bytes).is_ok(): the bytes are well-formed UTF-8 sequences from
\* end to end, with no overlong form, no surrogate and nothing above U+10FFFF.
\* continuations: the bytes 2..to are there and are continuation bytes
\* 0x80..0xBF, the second byte within low..high; width: the number of bytes of
\* the sequence the bytes begin with, 0 if they begin with none
RECURSIVE from_utf8(_)
from_utf8(bytes) ==
    LET continuations(to, low, high) ==
            /\ Len(bytes) >= to
            /\ low <= bytes[2] /\ bytes[2] <= high
            /\ \A i \in 3..to : 128 <= bytes[i] /\ bytes[i] <= 191
        first == bytes[1]
        width ==
            IF first < 128 THEN 1
            ELSE IF 194 <= first /\ first <= 223
            THEN IF continuations(2, 128, 191) THEN 2 ELSE 0
            ELSE IF first = 224
            THEN IF continuations(3, 160, 191) THEN 3 ELSE 0
            ELSE IF first = 237
            THEN IF continuations(3, 128, 159) THEN 3 ELSE 0
            ELSE IF 225 <= first /\ first <= 239
            THEN IF continuations(3, 128, 191) THEN 3 ELSE 0
            ELSE IF first = 240
            THEN IF continuations(4, 144, 191) THEN 4 ELSE 0
            ELSE IF 241 <= first /\ first <= 243
            THEN IF continuations(4, 128, 191) THEN 4 ELSE 0
            ELSE IF first = 244
            THEN IF continuations(4, 128, 143) THEN 4 ELSE 0
            ELSE 0
    IN  IF bytes = <<>> THEN TRUE
        ELSE width > 0 /\ from_utf8(Drop(bytes, width))

\* Address::try_from, as far as the model needs it: at least two segments
\* separated by '.', none of them empty, of the characters [A-Za-z0-9_~-]
is_address_char(byte) ==
    \/ byte \in 48..57
    \/ byte \in 65..90
    \/ byte \in 97..122
    \/ byte \in {45, 95, 126}
Address_try_from(bytes) ==
    /\ bytes # <<>>
    /\ \E i \in 1..Len(bytes) : bytes[i] = 46
    /\ bytes[1] # 46
    /\ bytes[Len(bytes)] # 46
    /\ \A i \in 1..Len(bytes) :
          \/ is_address_char(bytes[i])
          \/ bytes[i] = 46 /\ i < Len(bytes) /\ bytes[i + 1] # 46

----------------------------------------------------------------------------
(* STREAM frames *)

\* FrameType as u8
FrameType_as_u8(kind) ==
    CASE kind = "ConnectionClose" -> 1
      [] kind = "ConnectionNewAddress" -> 2
      [] kind = "ConnectionMaxData" -> 3
      [] kind = "ConnectionDataBlocked" -> 4
      [] kind = "ConnectionMaxStreamId" -> 5
      [] kind = "ConnectionStreamIdBlocked" -> 6
      [] kind = "ConnectionAssetDetails" -> 7
      [] kind = "StreamClose" -> 16
      [] kind = "StreamMoney" -> 17
      [] kind = "StreamMaxMoney" -> 18
      [] kind = "StreamMoneyBlocked" -> 19
      [] kind = "StreamData" -> 20
      [] kind = "StreamMaxData" -> 21
      [] kind = "StreamDataBlocked" -> 22

KnownFrameTypes ==
    {"ConnectionClose", "ConnectionNewAddress", "ConnectionMaxData", "ConnectionDataBlocked",
     "ConnectionMaxStreamId", "ConnectionStreamIdBlocked", "ConnectionAssetDetails",
     "StreamClose", "StreamMoney", "StreamMaxMoney", "StreamMoneyBlocked", "StreamData",
     "StreamMaxData", "StreamDataBlocked"}

\* impl From<u8> for FrameType
FrameType_from(num) ==
    IF \E kind \in KnownFrameTypes : FrameType_as_u8(kind) = num
    THEN CHOOSE kind \in KnownFrameTypes : FrameType_as_u8(kind) = num
    ELSE "Unknown"

\* the STREAM ErrorCode as u8; Unknown is the variant after 0x09
ErrorCode_as_u8(code) ==
    CASE code = "NoError" -> 1
      [] code = "InternalError" -> 2
      [] code = "EndpointBusy" -> 3
      [] code = "FlowControlError" -> 4
      [] code = "StreamIdError" -> 5
      [] code = "StreamStateError" -> 6
      [] code = "FrameFormatError" -> 7
      [] code = "ProtocolViolation" -> 8
      [] code = "ApplicationError" -> 9
      [] code = "Unknown" -> 10

KnownErrorCodes ==
    {"NoError", "InternalError", "EndpointBusy", "FlowControlError", "StreamIdError",
     "StreamStateError", "FrameFormatError", "ProtocolViolation", "ApplicationError"}

\* impl From<u8> for ErrorCode
ErrorCode_from(num) ==
    IF \E code \in KnownErrorCodes : ErrorCode_as_u8(code) = num
    THEN CHOOSE code \in KnownErrorCodes : ErrorCode_as_u8(code) = num
    ELSE "Unknown"

\* IlpPacketType as u8
IlpPacketType_as_u8(type) ==
    CASE type = "Prepare" -> 12
      [] type = "Fulfill" -> 13
      [] type = "Reject" -> 14

IlpPacketTypes == {"Prepare", "Fulfill", "Reject"}

\* IlpPacketType::try_from(u8)
IlpPacketType_try_from(num) ==
    IF \E type \in IlpPacketTypes : IlpPacketType_as_u8(type) = num
    THEN Read(CHOOSE type \in IlpPacketTypes : IlpPacketType_as_u8(type) = num, <<>>)
    ELSE Fail(<<>>)

\* SerializableFrame::put_contents of each frame, appended to buf
put_contents(frame, buf) ==
    CASE frame.frame = "ConnectionClose" ->
            put_var_octet_string(put_u8(buf, ErrorCode_as_u8(frame.code)), frame.message)
      [] frame.frame = "ConnectionNewAddress" ->
            put_var_octet_string(buf, frame.source_account)
      [] frame.frame = "ConnectionAssetDetails" ->
            put_u8(put_var_octet_string(buf, frame.source_asset_code), frame.source_asset_scale)
      [] frame.frame \in {"ConnectionMaxData", "ConnectionDataBlocked"} ->
            put_var_uint(buf, frame.max_offset)
      [] frame.frame \in {"ConnectionMaxStreamId", "ConnectionStreamIdBlocked"} ->
            put_var_uint(buf, frame.max_stream_id)
      [] frame.frame = "StreamClose" ->
            put_var_octet_string(
                put_u8(put_var_uint(buf, frame.stream_id), ErrorCode_as_u8(frame.code)),
                frame.message)
      [] frame.frame = "StreamMoney" ->
            put_var_uint(put_var_uint(buf, frame.stream_id), frame.shares)
      [] frame.frame = "StreamMaxMoney" ->
            put_var_uint(put_var_uint(put_var_uint(buf, frame.stream_id), frame.receive_max),
                         frame.total_received)
      [] frame.frame = "StreamMoneyBlocked" ->
            put_var_uint(put_var_uint(put_var_uint(buf, frame.stream_id), frame.send_max),
                         frame.total_sent)
      [] frame.frame = "StreamData" ->
            put_var_octet_string(
                put_var_uint(put_var_uint(buf, frame.stream_id), frame.offset), frame.data)
      [] frame.frame \in {"StreamMaxData", "StreamDataBlocked"} ->
            put_var_uint(put_var_uint(buf, frame.stream_id), frame.max_offset)

\* ConnectionCloseFrame::read_contents
read_ConnectionClose(reader) ==
    LET code == read_u8(reader)
        message == read_var_octet_string(code.rest)
    IN  IF code.ok /\ message.ok /\ from_utf8(message.value)
        THEN Read([frame |-> "ConnectionClose", code |-> ErrorCode_from(code.value),
                   message |-> message.value], message.rest)
        ELSE Fail(reader)

\* ConnectionNewAddressFrame::read_contents
read_ConnectionNewAddress(reader) ==
    LET source_account == read_var_octet_string(reader)
    IN  IF source_account.ok /\ Address_try_from(source_account.value)
        THEN Read([frame |-> "ConnectionNewAddress",
                   source_account |-> source_account.value], source_account.rest)
        ELSE Fail(reader)

\* ConnectionAssetDetailsFrame::read_contents
read_ConnectionAssetDetails(reader) ==
    LET source_asset_code == read_var_octet_string(reader)
        source_asset_scale == read_u8(source_asset_code.rest)
    IN  IF source_asset_code.ok /\ from_utf8(source_asset_code.value) /\ source_asset_scale.ok
        THEN Read([frame |-> "ConnectionAssetDetails",
                   source_asset_code |-> source_asset_code.value,
                   source_asset_scale |-> source_asset_scale.value], source_asset_scale.rest)
        ELSE Fail(reader)

\* read_contents of ConnectionMaxDataFrame and ConnectionDataBlockedFrame
read_max_offset(kind, reader) ==
    LET max_offset == read_var_uint(reader)
    IN  IF max_offset.ok
        THEN Read([frame |-> kind, max_offset |-> max_offset.value], max_offset.rest)
        ELSE Fail(reader)

\* read_contents of ConnectionMaxStreamIdFrame and ConnectionStreamIdBlockedFrame
read_max_stream_id(kind, reader) ==
    LET max_stream_id == read_var_uint(reader)
    IN  IF max_stream_id.ok
        THEN Read([frame |-> kind, max_stream_id |-> max_stream_id.value], max_stream_id.rest)
        ELSE Fail(reader)

\* StreamCloseFrame::read_contents
read_StreamClose(reader) ==
    LET stream_id == read_var_uint(reader)
        code == read_u8(stream_id.rest)
        message == read_var_octet_string(code.rest)
    IN  IF stream_id.ok /\ code.ok /\ message.ok /\ from_utf8(message.value)
        THEN Read([frame |-> "StreamClose", stream_id |-> stream_id.value,
                   code |-> ErrorCode_from(code.value), message |-> message.value],
                  message.rest)
        ELSE Fail(reader)

\* StreamMoneyFrame::read_contents
read_StreamMoney(reader) ==
    LET stream_id == read_var_uint(reader)
        shares == read_var_uint(stream_id.rest)
    IN  IF stream_id.ok /\ shares.ok
        THEN Read([frame |-> "StreamMoney", stream_id |-> stream_id.value,
                   shares |-> shares.value], shares.rest)
        ELSE Fail(reader)

\* (mutation) receive_max and total_received are read in the other order
read_StreamMaxMoney_swapped(reader) ==
    LET stream_id == read_var_uint(reader)
        total_received == read_var_uint(stream_id.rest)
        receive_max == saturating_read_var_uint(total_received.rest)
    IN  IF stream_id.ok /\ receive_max.ok /\ total_received.ok
        THEN Read([frame |-> "StreamMaxMoney", stream_id |-> stream_id.value,
                   receive_max |-> receive_max.value,
                   total_received |-> total_received.value], receive_max.rest)
        ELSE Fail(reader)

\* StreamMaxMoneyFrame::read_contents
read_StreamMaxMoney(reader) ==
    LET stream_id == read_var_uint(reader)
        receive_max == saturating_read_var_uint(stream_id.rest)
        total_received == read_var_uint(receive_max.rest)
    IN  IF stream_id.ok /\ receive_max.ok /\ total_received.ok
        THEN Read([frame |-> "StreamMaxMoney", stream_id |-> stream_id.value,
                   receive_max |-> receive_max.value,
                   total_received |-> total_received.value], total_received.rest)
        ELSE Fail(reader)

\* StreamMoneyBlockedFrame::read_contents
read_StreamMoneyBlocked(reader) ==
    LET stream_id == read_var_uint(reader)
        send_max == saturating_read_var_uint(stream_id.rest)
        total_sent == read_var_uint(send_max.rest)
    IN  IF stream_id.ok /\ send_max.ok /\ total_sent.ok
        THEN Read([frame |-> "StreamMoneyBlocked", stream_id |-> stream_id.value,
                   send_max |-> send_max.value, total_sent |-> total_sent.value],
                  total_sent.rest)
        ELSE Fail(reader)

\* StreamDataFrame::read_contents
read_StreamData(reader) ==
    LET stream_id == read_var_uint(reader)
        offset == read_var_uint(stream_id.rest)
        data == read_var_octet_string(offset.rest)
    IN  IF stream_id.ok /\ offset.ok /\ data.ok
        THEN Read([frame |-> "StreamData", stream_id |-> stream_id.value,
                   offset |-> offset.value, data |-> data.value], data.rest)
        ELSE Fail(reader)

\* read_contents of StreamMaxDataFrame and StreamDataBlockedFrame
read_stream_max_offset(kind, reader) ==
    LET stream_id == read_var_uint(reader)
        max_offset == read_var_uint(stream_id.rest)
    IN  IF stream_id.ok /\ max_offset.ok
        THEN Read([frame |-> kind, stream_id |-> stream_id.value,
                   max_offset |-> max_offset.value], max_offset.rest)
        ELSE Fail(reader)

\* SerializableFrame::read_contents of the frame type `kind`
read_contents(kind, reader) ==
    CASE kind = "ConnectionClose" -> read_ConnectionClose(reader)
      [] kind = "ConnectionNewAddress" -> read_ConnectionNewAddress(reader)
      [] kind = "ConnectionAssetDetails" -> read_ConnectionAssetDetails(reader)
      [] kind \in {"ConnectionMaxData", "ConnectionDataBlocked"} -> read_max_offset(kind, reader)
      [] kind \in {"ConnectionMaxStreamId", "ConnectionStreamIdBlocked"} ->
            read_max_stream_id(kind, reader)
      [] kind = "StreamClose" -> read_StreamClose(reader)
      [] kind = "StreamMoney" -> read_StreamMoney(reader)
      [] kind = "StreamMaxMoney" -> read_StreamMaxMoney(reader)
      [] kind = "StreamMoneyBlocked" -> read_StreamMoneyBlocked(reader)
      [] kind = "StreamData" -> read_StreamData(reader)
      [] kind \in {"StreamMaxData", "StreamDataBlocked"} -> read_stream_max_offset(kind, reader)

UnknownFrame == [frame |-> "Unknown"]

----------------------------------------------------------------------------
(* FrameIterator, StreamPacketBuilder and StreamPacket *)

\* the frame read from the contents, with the buffer after the contents
frame_of(frame, rest) ==
    IF frame.ok THEN Read(frame.value, rest) ELSE Fail(rest)

\* (mutation) a frame of an unknown type is an error
framed_strictly(frame_type, contents) ==
    IF ~contents.ok \/ FrameType_from(frame_type) = "Unknown" THEN Fail(contents.rest)
    ELSE frame_of(read_contents(FrameType_from(frame_type), contents.value), contents.rest)

framed(frame_type, contents) ==
    IF ~contents.ok THEN Fail(contents.rest)
    ELSE IF FrameType_from(frame_type) = "Unknown" THEN Read(UnknownFrame, contents.rest)
    ELSE frame_of(read_contents(FrameType_from(frame_type), contents.value), contents.rest)
typed(frame_type) ==
    IF ~frame_type.ok THEN Fail(frame_type.rest)
    ELSE framed(frame_type.value, read_var_octet_string(frame_type.rest))
\* FrameIterator::try_read_next_frame: the frame and the buffer after it, or the
\* error and the buffer where the failing read left it
try_read_next_frame(buffer) == typed(read_u8(buffer))

\* Iterator::next of FrameIterator: frames that fail to parse are passed over
RECURSIVE FrameIterator_next(_)
yielded(frame) ==
    IF frame.ok THEN [item |-> Some(frame.value), buffer |-> frame.rest]
    ELSE FrameIterator_next(frame.rest)
FrameIterator_next(buffer) ==
    IF buffer = <<>> THEN [item |-> None, buffer |-> buffer]
    ELSE yielded(try_read_next_frame(buffer))

\* the frames the iterator yields until it returns None
RECURSIVE collect(_)
collected(next) ==
    IF is_none(next.item) THEN <<>>
    ELSE <<unwrap(next.item)>> \o collect(next.buffer)
collect(buffer) == collected(FrameIterator_next(buffer))

\* Iterator::count
count(buffer) == Len(collect(buffer))

\* the type tag and the length-prefixed contents of each frame of the builder;
\* nothing is written for Frame::Unknown
RECURSIVE put_frames(_, _)
put_frames(buffer_unencrypted, builder_frames) ==
    IF builder_frames = <<>> THEN buffer_unencrypted
    ELSE LET frame == Head(builder_frames)
         IN  IF frame.frame = "Unknown"
             THEN put_frames(buffer_unencrypted, Tail(builder_frames))
             ELSE put_frames(
                      put_var_octet_string(
                          put_u8(buffer_unencrypted, FrameType_as_u8(frame.frame)),
                          put_contents(frame, <<>>)),
                      Tail(builder_frames))

\* (mutation) the prepare_amount is written before the sequence
put_header_swapped(self) ==
    put_var_uint(
        put_var_uint(
            put_var_uint(
                put_u8(put_u8(<<>>, STREAM_VERSION), IlpPacketType_as_u8(self.ilp_packet_type)),
                self.prepare_amount),
            self.sequence),
        Len(self.frames))

\* version, type, sequence, prepare_amount and the number of frames of the builder
put_header(self) ==
    put_var_uint(
        put_var_uint(
            put_var_uint(
                put_u8(put_u8(<<>>, STREAM_VERSION), IlpPacketType_as_u8(self.ilp_packet_type)),
                self.sequence),
            self.prepare_amount),
        Len(self.frames))

\* StreamPacketBuilder::build
build(self) ==
    [buffer_unencrypted |-> put_frames(put_header(self), self.frames),
     sequence |-> self.sequence,
     ilp_packet_type |-> self.ilp_packet_type,
     prepare_amount |-> self.prepare_amount,
     frames_offset |-> Len(put_header(self))]

\* (mutation) a num_frames prefix smaller than the frames that follow is accepted
from_bytes_unencrypted_lenient(buffer_unencrypted) ==
    LET version == read_u8(buffer_unencrypted)
        type_byte == read_u8(version.rest)
        ilp_packet_type == IlpPacketType_try_from(type_byte.value)
        sequence == read_var_uint(type_byte.rest)
        prepare_amount == read_var_uint(sequence.rest)
        num_frames == read_var_uint(prepare_amount.rest)
        frames_offset == Len(buffer_unencrypted) - Len(num_frames.rest)
    IN  IF ~version.ok THEN Err(version.value)
        ELSE IF version.value # STREAM_VERSION THEN Err("InvalidPacket")
        ELSE IF ~type_byte.ok THEN Err(type_byte.value)
        ELSE IF ~ilp_packet_type.ok THEN Err("InvalidPacket")
        ELSE IF ~sequence.ok THEN Err(sequence.value)
        ELSE IF ~prepare_amount.ok THEN Err(prepare_amount.value)
        ELSE IF ~num_frames.ok THEN Err(num_frames.value)
        ELSE IF num_frames.value <= count(Drop(buffer_unencrypted, frames_offset))
        THEN Ok([buffer_unencrypted |-> buffer_unencrypted,
                 sequence |-> sequence.value,
                 ilp_packet_type |-> ilp_packet_type.value,
                 prepare_amount |-> prepare_amount.value,
                 frames_offset |-> frames_offset])
        ELSE Err("InvalidPacket")

\* StreamPacket::from_bytes_unencrypted: a header that cannot be read is the
\* ParseError::Io of the failing read, a wrong version, an unknown packet type
\* or a wrong number of frames is ParseError::InvalidPacket
from_bytes_unencrypted(buffer_unencrypted) ==
    LET version == read_u8(buffer_unencrypted)
        type_byte == read_u8(version.rest)
        ilp_packet_type == IlpPacketType_try_from(type_byte.value)
        sequence == read_var_uint(type_byte.rest)
        prepare_amount == read_var_uint(sequence.rest)
        num_frames == read_var_uint(prepare_amount.rest)
        frames_offset == Len(buffer_unencrypted) - Len(num_frames.rest)
    IN  IF ~version.ok THEN Err(version.value)
        ELSE IF version.value # STREAM_VERSION THEN Err("InvalidPacket")
        ELSE IF ~type_byte.ok THEN Err(type_byte.value)
        ELSE IF ~ilp_packet_type.ok THEN Err("InvalidPacket")
        ELSE IF ~sequence.ok THEN Err(sequence.value)
        ELSE IF ~prepare_amount.ok THEN Err(prepare_amount.value)
        ELSE IF ~num_frames.ok THEN Err(num_frames.value)
        ELSE IF num_frames.value = count(Drop(buffer_unencrypted, frames_offset))
        THEN Ok([buffer_unencrypted |-> buffer_unencrypted,
                 sequence |-> sequence.value,
                 ilp_packet_type |-> ilp_packet_type.value,
                 prepare_amount |-> prepare_amount.value,
                 frames_offset |-> frames_offset])
        ELSE Err("InvalidPacket")

\* StreamPacket::frames, collected
frames(self) == collect(Drop(self.buffer_unencrypted, self.frames_offset))

----------------------------------------------------------------------------
(* The codec at work: packets are built, their bytes travel, bytes are decoded *)

\* the longest frame list explored exhaustively
MaxFrames == 2

\* "oop", "blah", "hello", "XYZ", "example.blah" as bytes, and the strings of
\* two, three and four bytes to a character: "e" with acute, the euro sign, U+1F4A9
str_oop == <<111, 111, 112>>
str_blah == <<98, 108, 97, 104>>
str_hello == <<104, 101, 108, 108, 111>>
str_XYZ == <<88, 89, 90>>
example_blah == <<101, 120, 97, 109, 112, 108, 101, 46, 98, 108, 97, 104>>
str_e_acute == <<195, 169>>
str_euro == <<226, 130, 172>>
str_emoji == <<240, 159, 146, 169>>

\* the frames of the packet of serialization::PACKET, in its order
ReferenceFrames ==
    << [frame |-> "ConnectionClose", code |-> "NoError", message |-> str_oop],
       [frame |-> "ConnectionNewAddress", source_account |-> example_blah],
       [frame |-> "ConnectionMaxData", max_offset |-> 1000],
       [frame |-> "ConnectionDataBlocked", max_offset |-> 2000],
       [frame |-> "ConnectionMaxStreamId", max_stream_id |-> 3000],
       [frame |-> "ConnectionStreamIdBlocked", max_stream_id |-> 4000],
       [frame |-> "ConnectionAssetDetails", source_asset_code |-> str_XYZ,
        source_asset_scale |-> 9],
       [frame |-> "StreamClose", stream_id |-> 76, code |-> "InternalError",
        message |-> str_blah],
       [frame |-> "StreamMoney", stream_id |-> 88, shares |-> 99],
       [frame |-> "StreamMaxMoney", stream_id |-> 11, receive_max |-> 987,
        total_received |-> 500],
       [frame |-> "StreamMoneyBlocked", stream_id |-> 66, send_max |-> 20000,
        total_sent |-> 6000],
       [frame |-> "StreamData", stream_id |-> 34, offset |-> 9000, data |-> str_hello],
       [frame |-> "StreamMaxData", stream_id |-> 35, max_offset |-> 8766],
       [frame |-> "StreamDataBlocked", stream_id |-> 888, max_offset |-> 44444] >>

\* serialization::PACKET as a builder
ReferenceBuilder ==
    [sequence |-> 1, ilp_packet_type |-> "Prepare", prepare_amount |-> 99,
     frames |-> ReferenceFrames]

\* serialization::SERIALIZED
SERIALIZED ==
    << 1, 12, 1, 1, 1, 99, 1, 14, 1, 5, 1, 3, 111, 111, 112, 2, 13, 12, 101, 120, 97, 109,
       112, 108, 101, 46, 98, 108, 97, 104, 3, 3, 2, 3, 232, 4, 3, 2, 7, 208, 5, 3, 2, 11,
       184, 6, 3, 2, 15, 160, 7, 5, 3, 88, 89, 90, 9, 16, 8, 1, 76, 2, 4, 98, 108, 97,
       104, 17, 4, 1, 88, 1, 99, 18, 8, 1, 11, 2, 3, 219, 2, 1, 244, 19, 8, 1, 66, 2, 78,
       32, 2, 23, 112, 20, 11, 1, 34, 2, 35, 40, 5, 104, 101, 108, 108, 111, 21, 5, 1, 35,
       2, 34, 62, 22, 6, 2, 3, 120, 2, 173, 156 >>

\* frames at the edges of their fields: empty strings, 0 and u64::MAX, the
\* ErrorCode Unknown
EdgeFrames ==
    { [frame |-> "ConnectionClose", code |-> "Unknown", message |-> <<>>],
      [frame |-> "StreamClose", stream_id |-> 0, code |-> "ApplicationError",
       message |-> <<>>],
      [frame |-> "StreamMoney", stream_id |-> 1, shares |-> 1],
      [frame |-> "StreamMaxMoney", stream_id |-> 1, receive_max |-> U64_MAX,
       total_received |-> 0],
      [frame |-> "StreamMoneyBlocked", stream_id |-> U64_MAX, send_max |-> U64_MAX,
       total_sent |-> 256],
      [frame |-> "StreamData", stream_id |-> 255, offset |-> 0, data |-> <<>>],
      [frame |-> "StreamData", stream_id |-> 1, offset |-> 256, data |-> <<17, 0, 255>>] }

\* frames whose strings have characters of more than one byte
Utf8Frames ==
    { [frame |-> "ConnectionClose", code |-> "NoError", message |-> str_e_acute],
      [frame |-> "ConnectionAssetDetails", source_asset_code |-> str_euro,
       source_asset_scale |-> 2],
      [frame |-> "StreamClose", stream_id |-> 1, code |-> "NoError",
       message |-> str_emoji \o str_oop \o str_e_acute] }

KnownFrames ==
    {ReferenceFrames[i] : i \in 1..Len(ReferenceFrames)} \cup EdgeFrames \cup Utf8Frames

\* the frame lists handed to the builder: every frame alone, every list of up to
\* MaxFrames of the edge frames and Frame::Unknown, and the reference list
RECURSIVE Lists(_, _)
Lists(set, n) ==
    IF n = 0 THEN {<<>>}
    ELSE Lists(set, n - 1)
         \cup {Append(list, item) : list \in Lists(set, n - 1), item \in set}
BuilderFrames ==
    Lists(EdgeFrames \cup {UnknownFrame}, MaxFrames)
    \cup {<<frame>> : frame \in KnownFrames}
    \cup {ReferenceFrames}

Builders ==
    [sequence : {1, 256}, ilp_packet_type : {"Prepare", "Reject"}, prepare_amount : {0, U64_MAX},
     frames : BuilderFrames]
    \cup {ReferenceBuilder}

\* the frames of the builder that build() writes
encoded_frames(self) == SelectSeq(self.frames, LAMBDA frame : frame.frame # "Unknown")

\* the num_frames prefixes a packet travels with: up to one more than the
\* longest list, and one less and one more than the reference list
Prefixes ==
    0..(MaxFrames + 1) \cup {Len(ReferenceFrames) - 1, Len(ReferenceFrames) + 1}

\* a builder of frames Frame::Unknown has the header of num_frames and no frame bytes
declaring(self, num_frames) ==
    [self EXCEPT !.frames = [i \in 1..num_frames |-> UnknownFrame]]

\* the bytes of a builder's packet with the num_frames of its header rewritten
with_num_frames(self, num_frames) ==
    put_frames(put_header(declaring(self, num_frames)), self.frames)

\* bytes that follow the last frame of a packet: a type tag alone, a StreamMoney
\* frame without contents, a StreamMoney frame whose stream_id has no bytes, a
\* frame of an unknown type, and a StreamMoney frame that parses
TrailingBytes ==
    {<<17>>, <<17, 0>>, <<17, 1, 0>>, <<255, 0>>, <<17, 4, 1, 1, 1, 1>>}

\* the bytes of frames of types that are not known: type tag, length, contents
UnknownFrameBytes == {<<255, 0>>, <<8, 2, 1, 2>>, <<0, 1, 99>>}

\* the bytes of a builder's packet with the bytes of one more frame after the
\* first `position` frames, counted in num_frames
with_frame_bytes(self, position, frame_bytes) ==
    put_frames(put_frames(put_header(declaring(self, Len(self.frames) + 1)),
                          Take(self.frames, position))
                   \o frame_bytes,
               Drop(self.frames, position))

\* the field of a frame that is read with saturating_read_var_uint, and the
\* field read after it
saturating_field(frame) ==
    IF frame.frame = "StreamMaxMoney" THEN frame.receive_max ELSE frame.send_max
following_field(frame) ==
    IF frame.frame = "StreamMaxMoney" THEN frame.total_received ELSE frame.total_sent

\* the encodings of the saturating field of a frame: its value in every width up
\* to one byte more than a u64 has, and the bytes 1, 2, .. of that width
WideBytes(frame) ==
    {put_uint_be(saturating_field(frame), width) :
        width \in predict_var_uint_size(saturating_field(frame))..(U64_BYTES + 1)}
    \cup {[i \in 1..(U64_BYTES + 1) |-> i]}

\* the contents of a StreamMaxMoney or StreamMoneyBlocked frame with the
\* saturating field written as the octet string value_bytes
wide_contents(frame, value_bytes) ==
    put_var_uint(put_var_octet_string(put_var_uint(<<>>, frame.stream_id), value_bytes),
                 following_field(frame))

\* the bytes of the packet of a builder of one such frame, written so
with_wide_field(self, value_bytes) ==
    put_var_octet_string(put_u8(put_header(self), FrameType_as_u8(self.frames[1].frame)),
                         wide_contents(self.frames[1], value_bytes))

\* the builder holds one StreamMaxMoney or StreamMoneyBlocked frame
one_saturating_frame(self) ==
    /\ Len(self.frames) = 1
    /\ self.frames[1].frame \in {"StreamMaxMoney", "StreamMoneyBlocked"}

\* the sender and the receiving side at rest
sender_at_rest ==
    /\ sender = new_sender(0)
    /\ result = "running"
    /\ awaiting = "get_ildcp_info"
    /\ overflow_checks = FALSE
    /\ prepares = <<>>
    /\ last_response = NoResponse
    /\ restored = 0
    /\ stubs = Stubs

CodecInit ==
    /\ codec_at_rest
    /\ sender_at_rest
    /\ receiver_at_rest
    /\ controller_at_rest
    /\ streams_at_rest

\* StreamPacketBuilder { .. }.build(): the packet's bytes are what travels
Build(self) ==
    /\ builder = None
    /\ builder' = Some(self)
    /\ wire' = build(self).buffer_unencrypted
    /\ parsed' = None
    /\ UNCHANGED <<sender_vars, receiver_vars, controller_vars, stream_vars>>

\* on the way the num_frames prefix of the bytes is rewritten
RewriteNumFrames(num_frames) ==
    /\ is_some(builder)
    /\ parsed = None
    /\ wire = build(unwrap(builder)).buffer_unencrypted
    /\ wire' = with_num_frames(unwrap(builder), num_frames)
    /\ UNCHANGED <<builder, parsed, sender_vars, receiver_vars, controller_vars, stream_vars>>

\* on the way bytes are appended to the packet
AppendBytes(trailing) ==
    /\ is_some(builder)
    /\ parsed = None
    /\ wire = build(unwrap(builder)).buffer_unencrypted
    /\ \A i \in 1..Len(unwrap(builder).frames) :
           unwrap(builder).frames[i].frame \in KnownFrameTypes
    /\ wire' = wire \o trailing
    /\ UNCHANGED <<builder, parsed, sender_vars, receiver_vars, controller_vars, stream_vars>>

\* the peer sends the packet with a frame of a type this version does not know
SendUnknownFrame(position, frame_bytes) ==
    /\ is_some(builder)
    /\ parsed = None
    /\ wire = build(unwrap(builder)).buffer_unencrypted
    /\ \A i \in 1..Len(unwrap(builder).frames) :
           unwrap(builder).frames[i].frame \in KnownFrameTypes
    /\ position <= Len(unwrap(builder).frames)
    /\ wire' = with_frame_bytes(unwrap(builder), position, frame_bytes)
    /\ UNCHANGED <<builder, parsed, sender_vars, receiver_vars, controller_vars, stream_vars>>

\* the peer writes receive_max or send_max in more bytes than it needs
SendWideField ==
    /\ is_some(builder)
    /\ parsed = None
    /\ wire = build(unwrap(builder)).buffer_unencrypted
    /\ one_saturating_frame(unwrap(builder))
    /\ \E value_bytes \in WideBytes(unwrap(builder).frames[1]) :
           wire' = with_wide_field(unwrap(builder), value_bytes)
    /\ UNCHANGED <<builder, parsed, sender_vars, receiver_vars, controller_vars, stream_vars>>

\* StreamPacket::from_bytes_unencrypted(wire)
Decode ==
    /\ is_some(builder)
    /\ parsed = None
    /\ parsed' = Some(from_bytes_unencrypted(wire))
    /\ UNCHANGED <<builder, wire, sender_vars, receiver_vars, controller_vars, stream_vars>>

CodecNext ==
    \/ \E self \in Builders : Build(self)
    \/ \E num_frames \in Prefixes : RewriteNumFrames(num_frames)
    \/ \E trailing \in TrailingBytes : AppendBytes(trailing)
    \/ \E position \in 0..MaxFrames, frame_bytes \in UnknownFrameBytes :
           SendUnknownFrame(position, frame_bytes)
    \/ SendWideField
    \/ Decode

CodecSpec == CodecInit /\ [][CodecNext]_vars

\* every frame of the builder is of one of the 14 known kinds
known_kinds(self) == \A i \in 1..Len(self.frames) : self.frames[i].frame \in KnownFrameTypes

\* the bytes on the wire are the ones build() wrote for the builder
untouched == is_some(builder) /\ wire = build(unwrap(builder)).buffer_unencrypted

\* C18: decoding the serialized bytes of a packet built from a sequence, an ILP
\* packet type, a prepare_amount and frames of the 14 known kinds succeeds and
\* yields a packet equal to the built one, whose frame iterator returns the
\* builder's frames, with their field values, in the builder's order
C18_RoundTrip ==
    (untouched /\ known_kinds(unwrap(builder)) /\ is_some(parsed))
        => /\ unwrap(parsed).ok
           /\ unwrap(parsed).value = build(unwrap(builder))
           /\ unwrap(parsed).value.sequence = unwrap(builder).sequence
           /\ unwrap(parsed).value.ilp_packet_type = unwrap(builder).ilp_packet_type
           /\ unwrap(parsed).value.prepare_amount = unwrap(builder).prepare_amount
           /\ frames(unwrap(parsed).value) = unwrap(builder).frames

\* the reference packet of all 14 kinds was built and decoded, and so was a
\* packet with fields at u64::MAX
C18_Witness ==
    /\ untouched
    /\ is_some(parsed)
    /\ unwrap(parsed).ok
    /\ unwrap(builder) = ReferenceBuilder
    /\ Len(frames(unwrap(parsed).value)) = 14
    /\ frames(unwrap(parsed).value)[10].receive_max = 987
    /\ frames(unwrap(parsed).value)[10].total_received = 500

\* the fields of each frame kind in the order of the wire, with their encoding
FieldOrder(kind) ==
    CASE kind = "ConnectionClose" -> << <<"code", "ErrorCode">>, <<"message", "var_octet_string">> >>
      [] kind = "ConnectionNewAddress" -> << <<"source_account", "var_octet_string">> >>
      [] kind = "ConnectionAssetDetails" ->
            << <<"source_asset_code", "var_octet_string">>, <<"source_asset_scale", "u8">> >>
      [] kind \in {"ConnectionMaxData", "ConnectionDataBlocked"} ->
            << <<"max_offset", "var_uint">> >>
      [] kind \in {"ConnectionMaxStreamId", "ConnectionStreamIdBlocked"} ->
            << <<"max_stream_id", "var_uint">> >>
      [] kind = "StreamClose" ->
            << <<"stream_id", "var_uint">>, <<"code", "ErrorCode">>,
               <<"message", "var_octet_string">> >>
      [] kind = "StreamMoney" -> << <<"stream_id", "var_uint">>, <<"shares", "var_uint">> >>
      [] kind = "StreamMaxMoney" ->
            << <<"stream_id", "var_uint">>, <<"receive_max", "var_uint">>,
               <<"total_received", "var_uint">> >>
      [] kind = "StreamMoneyBlocked" ->
            << <<"stream_id", "var_uint">>, <<"send_max", "var_uint">>,
               <<"total_sent", "var_uint">> >>
      [] kind = "StreamData" ->
            << <<"stream_id", "var_uint">>, <<"offset", "var_uint">>,
               <<"data", "var_octet_string">> >>
      [] kind \in {"StreamMaxData", "StreamDataBlocked"} ->
            << <<"stream_id", "var_uint">>, <<"max_offset", "var_uint">> >>

\* the one-byte type tags of the 14 kinds
FrameTags == (1..7) \cup (16..22)

\* a field value in its encoding
encoded_field(value, encoding) ==
    CASE encoding = "u8" -> <<value>>
      [] encoding = "ErrorCode" -> <<ErrorCode_as_u8(value)>>
      [] encoding = "var_uint" -> put_var_uint(<<>>, value)
      [] encoding = "var_octet_string" -> put_var_octet_string(<<>>, value)

\* the fields of a frame, from the n-th on, in their encodings
RECURSIVE encoded_fields(_, _)
encoded_fields(frame, n) ==
    IF n > Len(FieldOrder(frame.frame)) THEN <<>>
    ELSE encoded_field(frame[FieldOrder(frame.frame)[n][1]], FieldOrder(frame.frame)[n][2])
         \o encoded_fields(frame, n + 1)

\* type tag, then the contents as a length-prefixed octet string, of the frames
\* from the n-th on
RECURSIVE laid_out(_, _)
laid_out(builder_frames, n) ==
    IF n > Len(builder_frames) THEN <<>>
    ELSE <<FrameType_as_u8(builder_frames[n].frame)>>
         \o put_var_octet_string(<<>>, encoded_fields(builder_frames[n], 1))
         \o laid_out(builder_frames, n + 1)

\* the wire layout of a packet
Layout(self) ==
    <<1, IlpPacketType_as_u8(self.ilp_packet_type)>>
    \o put_var_uint(<<>>, self.sequence)
    \o put_var_uint(<<>>, self.prepare_amount)
    \o put_var_uint(<<>>, Len(self.frames))
    \o laid_out(self.frames, 1)

\* C19: build() serializes a packet of known frames as version byte 1, ILP type
\* byte, var_uint sequence, var_uint prepare_amount, var_uint number of frames,
\* then each frame in builder order as its type tag (0x01-0x07, 0x10-0x16) and
\* its contents, a length-prefixed octet string of the fields in their fixed
\* order; the reference packet serializes to the reference vector
C19_WireLayout ==
    (untouched /\ known_kinds(unwrap(builder)))
        => /\ wire = Layout(unwrap(builder))
           /\ \A i \in 1..Len(unwrap(builder).frames) :
                  FrameType_as_u8(unwrap(builder).frames[i].frame) \in FrameTags
           /\ unwrap(builder) = ReferenceBuilder => wire = SERIALIZED

\* the reference packet was built: sequence 1, type 12, prepare_amount 99 and
\* the 14 frames, 121 bytes
C19_Witness ==
    /\ untouched
    /\ unwrap(builder) = ReferenceBuilder
    /\ wire = SERIALIZED
    /\ Len(wire) = 121
    /\ wire[2] = 12
    /\ wire[6] = 99

\* C20: a packet whose num_frames prefix differs from the number of frames
\* encoded after the header, whether larger or smaller, is rejected by the
\* decoder with InvalidPacket
C20_NumFramesMismatch ==
    \A num_frames \in Prefixes :
        ( /\ is_some(builder)
          /\ is_some(parsed)
          /\ wire = with_num_frames(unwrap(builder), num_frames)
          /\ num_frames # Len(encoded_frames(unwrap(builder))) )
            => ~unwrap(parsed).ok /\ unwrap(parsed).value = "InvalidPacket"

\* two frames were encoded and the packet that declares one frame was rejected,
\* as the decoder rejects the one that declares three
C20_Witness ==
    /\ is_some(builder)
    /\ Len(unwrap(builder).frames) = 2
    /\ Len(encoded_frames(unwrap(builder))) = 2
    /\ wire = with_num_frames(unwrap(builder), 1)
    /\ is_some(parsed)
    /\ ~unwrap(parsed).ok
    /\ unwrap(parsed).value = "InvalidPacket"
    /\ ~from_bytes_unencrypted(with_num_frames(unwrap(builder), 3)).ok
    /\ from_bytes_unencrypted(with_num_frames(unwrap(builder), 2)).ok

\* the bytes on the wire after the bytes build() wrote for the builder
trailing_bytes == Drop(wire, Len(build(unwrap(builder)).buffer_unencrypted))

\* the wire holds the packet of the builder, of known frames only, followed by
\* bytes that are no frame: a frame cannot be read from them
has_trailing_garbage ==
    /\ is_some(builder)
    /\ known_kinds(unwrap(builder))
    /\ Len(wire) > Len(build(unwrap(builder)).buffer_unencrypted)
    /\ Take(wire, Len(build(unwrap(builder)).buffer_unencrypted))
           = build(unwrap(builder)).buffer_unencrypted
    /\ ~try_read_next_frame(trailing_bytes).ok

\* C21: a buffer that holds num_frames well-formed frames followed by bytes that
\* do not parse as a frame, or by a frame of a known type whose contents fail
\* to parse, is rejected by the decoder with InvalidPacket
C21_Original ==
    (has_trailing_garbage /\ is_some(parsed))
        => ~unwrap(parsed).ok /\ unwrap(parsed).value = "InvalidPacket"

\* the wire holds the packet of the builder with the bytes of a frame of an
\* unknown type after its first `position` frames
has_unknown_frame(position, frame_bytes) ==
    /\ is_some(builder)
    /\ known_kinds(unwrap(builder))
    /\ position <= Len(unwrap(builder).frames)
    /\ wire = with_frame_bytes(unwrap(builder), position, frame_bytes)

\* C22: a packet that holds, among the frames num_frames counts, frames of a
\* type outside the 14 known ones decodes, with the header of the packet, and
\* its frame iterator returns the known frames in their order with their
\* values, with Frame::Unknown where the unknown frame stands
C22_UnknownFrames ==
    \A position \in 0..MaxFrames, frame_bytes \in UnknownFrameBytes :
        (has_unknown_frame(position, frame_bytes) /\ is_some(parsed))
            => /\ unwrap(parsed).ok
               /\ unwrap(parsed).value.sequence = unwrap(builder).sequence
               /\ unwrap(parsed).value.prepare_amount = unwrap(builder).prepare_amount
               /\ frames(unwrap(parsed).value)
                      = Take(unwrap(builder).frames, position)
                            \o <<UnknownFrame>>
                            \o Drop(unwrap(builder).frames, position)
               /\ SelectSeq(frames(unwrap(parsed).value),
                            LAMBDA frame : frame.frame # "Unknown")
                      = unwrap(builder).frames

\* a frame of type 8 with two bytes of contents stood between two known frames
\* and the packet decoded to three frames
C22_Witness ==
    /\ has_unknown_frame(1, <<8, 2, 1, 2>>)
    /\ Len(unwrap(builder).frames) = 2
    /\ is_some(parsed)
    /\ unwrap(parsed).ok
    /\ Len(frames(unwrap(parsed).value)) = 3
    /\ frames(unwrap(parsed).value)[2] = UnknownFrame
    /\ frames(unwrap(parsed).value)[3] = unwrap(builder).frames[2]

\* the frame of the builder as it decodes when its saturating field is written
\* as value_bytes
saturated_frame(frame, value_bytes) ==
    IF frame.frame = "StreamMaxMoney"
    THEN [frame EXCEPT !.receive_max =
              IF Len(value_bytes) > U64_BYTES THEN U64_MAX ELSE read_uint_be(value_bytes)]
    ELSE [frame EXCEPT !.send_max =
              IF Len(value_bytes) > U64_BYTES THEN U64_MAX ELSE read_uint_be(value_bytes)]

\* C23: a StreamMaxMoney or StreamMoneyBlocked frame whose receive_max or
\* send_max is written in more bytes than a u64 has decodes with that field at
\* u64::MAX and the field after it read from the bytes that follow; written in
\* as many bytes as a u64 has or fewer, the field decodes to its value
C23_SaturatingDecode ==
    (is_some(builder) /\ is_some(parsed) /\ one_saturating_frame(unwrap(builder)))
        => \A value_bytes \in WideBytes(unwrap(builder).frames[1]) :
               wire = with_wide_field(unwrap(builder), value_bytes)
                   => /\ unwrap(parsed).ok
                      /\ frames(unwrap(parsed).value)
                             = <<saturated_frame(unwrap(builder).frames[1], value_bytes)>>
                      /\ following_field(frames(unwrap(parsed).value)[1])
                             = following_field(unwrap(builder).frames[1])

\* receive_max 987 written in one byte more than a u64 has was decoded as
\* u64::MAX, with total_received 500 after it
C23_Witness ==
    /\ is_some(builder)
    /\ is_some(parsed)
    /\ one_saturating_frame(unwrap(builder))
    /\ unwrap(builder).frames[1].frame = "StreamMaxMoney"
    /\ unwrap(builder).frames[1].receive_max = 987
    /\ wire = with_wide_field(unwrap(builder), put_uint_be(987, U64_BYTES + 1))
    /\ unwrap(parsed).ok
    /\ frames(unwrap(parsed).value)[1].receive_max = U64_MAX
    /\ frames(unwrap(parsed).value)[1].total_received = 500


\* C38: the packet build() produces for any list of frames, lists that contain
\* Frame::Unknown included, has no bytes for the Unknown frames and a num_frames
\* prefix equal to the number of frames written, and decoding it succeeds
C38_Original ==
    (untouched /\ is_some(parsed))
        => /\ wire = with_num_frames(unwrap(builder), Len(encoded_frames(unwrap(builder))))
           /\ unwrap(parsed).ok

----------------------------------------------------------------------------
(* Byte strings of the receiving side.  The bytes that come out of HMAC, SHA-256,
   AES-GCM and the random token generator are kept as terms: a string is a
   sequence of chunks, where
     <<"lit", bytes>>          is the literal bytes,
     <<"out", term, lo, hi>>   is bytes lo..hi of the output named by the term,
     <<"enc", key, plaintext>> is the whole of encrypt(key, plaintext),
     <<"encx", key, plaintext>> is encrypt(key, plaintext) with one byte changed,
     <<"b64", bytes, lo, hi>>  is characters lo..hi of base64url_nopad(bytes),
     <<"b64x", bytes, i, bits>> is character i of base64url_nopad(bytes) replaced
                               by another: bits = "unused" when only the bits
                               that encode no byte differ, "data" otherwise.
   Strings are kept in normal form (no empty chunk, neighbours merged), so that
   two strings are the same bytes exactly when they are equal. *)

\* length of the AES-256-GCM envelope: 12 bytes of IV and 16 of auth tag
ENVELOPE == 28

\* the number of characters of base64url_nopad of n bytes
b64_len(n) == (8 * n + 5) \div 6

\* the number of bytes a chunk stands for
chunk_len(chunk) ==
    CASE chunk[1] = "lit" -> Len(chunk[2])
      [] chunk[1] \in {"out", "b64"} -> chunk[4] - chunk[3] + 1
      [] chunk[1] \in {"enc", "encx"} -> ENVELOPE + Len(chunk[3])
      [] chunk[1] = "b64x" -> 1

\* the length of a string
RECURSIVE str_len(_)
str_len(string) ==
    IF string = <<>> THEN 0 ELSE chunk_len(Head(string)) + str_len(Tail(string))

\* the literal bytes as a string
lit(bytes) == IF bytes = <<>> THEN <<>> ELSE << <<"lit", bytes>> >>

\* two neighbouring chunks are one chunk
mergeable(left, right) ==
    \/ left[1] = "lit" /\ right[1] = "lit"
    \/ /\ left[1] \in {"out", "b64"}
       /\ right[1] = left[1]
       /\ right[2] = left[2]
       /\ right[3] = left[4] + 1
merged(left, right) ==
    IF left[1] = "lit" THEN <<"lit", left[2] \o right[2]>>
    ELSE <<left[1], left[2], left[3], right[4]>>

\* a ++ b
str_concat(a, b) ==
    IF a = <<>> THEN b
    ELSE IF b = <<>> THEN a
    ELSE IF mergeable(a[Len(a)], Head(b))
    THEN SubSeq(a, 1, Len(a) - 1) \o <<merged(a[Len(a)], Head(b))>> \o Tail(b)
    ELSE a \o b

\* the first n bytes of a chunk of more than n bytes; the whole of an encrypted
\* chunk is not cut
chunk_take(chunk, n) ==
    CASE chunk[1] = "lit" -> <<"lit", Take(chunk[2], n)>>
      [] chunk[1] \in {"out", "b64"} -> <<chunk[1], chunk[2], chunk[3], chunk[3] + n - 1>>
chunk_drop(chunk, n) ==
    CASE chunk[1] = "lit" -> <<"lit", Drop(chunk[2], n)>>
      [] chunk[1] \in {"out", "b64"} -> <<chunk[1], chunk[2], chunk[3] + n, chunk[4]>>

\* string[..n] and string[n..]
RECURSIVE str_take(_, _)
str_take(string, n) ==
    IF n = 0 \/ string = <<>> THEN <<>>
    ELSE IF chunk_len(Head(string)) <= n
    THEN <<Head(string)>> \o str_take(Tail(string), n - chunk_len(Head(string)))
    ELSE <<chunk_take(Head(string), n)>>
RECURSIVE str_drop(_, _)
str_drop(string, n) ==
    IF n = 0 \/ string = <<>> THEN string
    ELSE IF chunk_len(Head(string)) <= n
    THEN str_drop(Tail(string), n - chunk_len(Head(string)))
    ELSE <<chunk_drop(Head(string), n)>> \o Tail(string)

\* <[u8]>::starts_with
starts_with(string, prefix) ==
    str_len(prefix) <= str_len(string) /\ str_take(string, str_len(prefix)) = prefix

----------------------------------------------------------------------------
(* Crypto primitives, base64 and ILP addresses of the receiving side *)

\* HMAC-SHA256 and SHA-256: 32 bytes that no other key and data, or input, give
hmac_sha256(key, data) == << <<"out", <<"hmac", key, data>>, 1, 32>> >>
hash_sha256(data) == << <<"out", <<"sha256", data>>, 1, 32>> >>

\* generate_token(): 18 random bytes, the k-th draw
generate_token(k) == << <<"out", <<"token", k>>, 1, 18>> >>

\* "ilp_stream_fulfillment"
FULFILLMENT_GENERATION_STRING ==
    <<105, 108, 112, 95, 115, 116, 114, 101, 97, 109, 95, 102, 117, 108, 102, 105, 108, 108,
      109, 101, 110, 116>>

generate_fulfillment(shared_secret, data) ==
    hmac_sha256(hmac_sha256(shared_secret, lit(FULFILLMENT_GENERATION_STRING)), data)
generate_condition(shared_secret, data) ==
    hash_sha256(generate_fulfillment(shared_secret, data))

\* AES-256-GCM: the ciphertext authenticates the key and every byte
encrypt(shared_secret, plaintext) == << <<"enc", shared_secret, plaintext>> >>
decrypt(shared_secret, ciphertext) ==
    IF /\ Len(ciphertext) = 1
       /\ ciphertext[1][1] = "enc"
       /\ ciphertext[1][2] = shared_secret
    THEN Ok(ciphertext[1][3])
    ELSE Err("DecryptionError")

\* base64::encode_config(bytes, URL_SAFE_NO_PAD)
base64_encode(bytes) ==
    IF bytes = <<>> THEN <<>> ELSE << <<"b64", bytes, 1, b64_len(str_len(bytes))>> >>

\* A-Z, a-z, 0-9, '-' and '_'
is_base64url(char) ==
    \/ char \in 65..90
    \/ char \in 97..122
    \/ char \in 48..57
    \/ char \in {45, 95}

\* the characters are the whole of base64url_nopad of some bytes, one encoding
\* after the other, every one but the last of a multiple of 3 bytes
RECURSIVE whole_encodings(_)
whole_encodings(chars) ==
    \/ chars = <<>>
    \/ /\ Head(chars)[1] = "b64"
       /\ Head(chars)[3] = 1
       /\ Head(chars)[4] = b64_len(str_len(Head(chars)[2]))
       /\ Tail(chars) = <<>> \/ str_len(Head(chars)[2]) % 3 = 0
       /\ whole_encodings(Tail(chars))

\* the bytes of whole encodings
RECURSIVE encoded_bytes(_)
encoded_bytes(chars) ==
    IF chars = <<>> THEN <<>>
    ELSE str_concat(Head(chars)[2], encoded_bytes(Tail(chars)))

\* every character is of the base64url alphabet
RECURSIVE all_base64url(_)
all_base64url(chars) ==
    \/ chars = <<>>
    \/ /\ Head(chars)[1] = "lit" => \A i \in 1..Len(Head(chars)[2]) : is_base64url(Head(chars)[2][i])
       /\ Head(chars)[1] \in {"lit", "b64", "b64x"}
       /\ all_base64url(Tail(chars))

\* base64::decode_config(chars, URL_SAFE_NO_PAD): an error for a character
\* outside the alphabet, for a length of 1 modulo 4 and for a last character
\* with bits set that encode no byte; other characters than whole encodings
\* decode to bytes that are no output of HMAC
base64_decode(chars) ==
    IF ~all_base64url(chars) THEN Err("InvalidByte")
    ELSE IF str_len(chars) % 4 = 1 THEN Err("InvalidLength")
    ELSE IF chars # <<>> /\ chars[Len(chars)][1] = "b64x" /\ chars[Len(chars)][4] = "unused"
    THEN Err("InvalidLastSymbol")
    ELSE IF whole_encodings(chars) THEN Ok(encoded_bytes(chars))
    ELSE Ok(<< <<"out", <<"decoded", chars>>, 1, (6 * str_len(chars)) \div 8>> >>)

\* '.'
DOT == 46

\* the position of the last '.' of the literal bytes, 0 if there is none
RECURSIVE last_dot(_)
last_dot(bytes) ==
    IF bytes = <<>> THEN 0
    ELSE IF bytes[Len(bytes)] = DOT THEN Len(bytes)
    ELSE last_dot(SubSeq(bytes, 1, Len(bytes) - 1))

\* Address::segments().rev().next(): what follows the last '.' of the address
RECURSIVE last_segment(_)
last_segment(address) ==
    IF address = <<>> THEN <<>>
    ELSE IF address[Len(address)][1] = "lit" /\ last_dot(address[Len(address)][2]) > 0
    THEN lit(Drop(address[Len(address)][2], last_dot(address[Len(address)][2])))
    ELSE str_concat(last_segment(SubSeq(address, 1, Len(address) - 1)),
                    <<address[Len(address)]>>)

\* Address::with_suffix
with_suffix(address, suffix) == str_concat(str_concat(address, lit(<<DOT>>)), suffix)

----------------------------------------------------------------------------
(* ConnectionGenerator and StreamReceiverService *)

\* b"ilp_stream_secret_generator"
STREAM_SERVER_SECRET_GENERATOR ==
    <<105, 108, 112, 95, 115, 116, 114, 101, 97, 109, 95, 115, 101, 99, 114, 101, 116, 95,
      103, 101, 110, 101, 114, 97, 116, 111, 114>>

\* ConnectionGenerator::new: assert_eq!(server_secret.len(), 32, ..) panics on a
\* secret of another length
ConnectionGenerator_new(server_secret) ==
    IF str_len(server_secret) # 32
    THEN Err("panic")
    ELSE Ok([secret_generator |->
                hmac_sha256(server_secret, lit(STREAM_SERVER_SECRET_GENERATOR))])

\* (mutation) the auth tag is of 16 bytes
tagged_16(destination_account, shared_secret) ==
    str_concat(destination_account,
               base64_encode(str_take(hmac_sha256(shared_secret, destination_account), 16)))

\* the destination with the auth tag appended to its last segment
tagged(destination_account, shared_secret) ==
    str_concat(destination_account,
               base64_encode(str_take(hmac_sha256(shared_secret, destination_account), 14)))

\* the address and the secret made of the random bytes
generated(self, base_address, random_bytes) ==
    [destination_account |->
        tagged(with_suffix(base_address, base64_encode(random_bytes)),
               hmac_sha256(self.secret_generator, random_bytes)),
     shared_secret |-> hmac_sha256(self.secret_generator, random_bytes)]

\* ConnectionGenerator::generate_address_and_secret, with the token of the k-th draw
generate_address_and_secret(self, base_address, k) ==
    generated(self, base_address, generate_token(k))

\* (mutation) the auth tag is not compared
authenticated_unchecked(shared_secret, destination_account, auth_tag) ==
    Ok(shared_secret)

\* the secret, if the auth tag is the one derived from it and the address
authenticated(shared_secret, destination_account, auth_tag) ==
    IF str_take(hmac_sha256(shared_secret,
                            str_take(destination_account, str_len(destination_account) - 19)),
                14) = auth_tag
    THEN Ok(shared_secret)
    ELSE Err(<<>>)

\* the secret of the decoded local part of the address
rederived(self, destination_account, local_part) ==
    IF ~local_part.ok THEN Err(<<>>)
    ELSE IF str_len(local_part.value) = 32
    THEN authenticated(hmac_sha256(self.secret_generator, str_take(local_part.value, 18)),
                       destination_account,
                       str_drop(local_part.value, 18))
    ELSE Err(<<>>)

\* ConnectionGenerator::rederive_secret
rederive_secret(self, destination_account) ==
    rederived(self, destination_account, base64_decode(last_segment(destination_account)))

\* StreamReceiverService::new
StreamReceiverService_new(server_secret) ==
    LET connection_generator == ConnectionGenerator_new(server_secret)
    IN  IF connection_generator.ok
        THEN Ok([connection_generator |-> connection_generator.value])
        ELSE connection_generator

F06_UNEXPECTED_PAYMENT == <<"F", "06">>
F02_UNREACHABLE == <<"F", "02">>

\* b"Could not decrypt data"
could_not_decrypt_data ==
    <<67, 111, 117, 108, 100, 32, 110, 111, 116, 32, 100, 101, 99, 114, 121, 112, 116, 32,
      100, 97, 116, 97>>

\* StreamPacket::from_encrypted(shared_secret, ciphertext)
decrypted_packet(decrypted) ==
    IF decrypted.ok THEN from_bytes_unencrypted(decrypted.value) ELSE Err("InvalidPacket")

\* (mutation) what follows the encrypted packet is not looked at
StreamPacket_from_encrypted_lenient(shared_secret, ciphertext) ==
    decrypted_packet(decrypt(shared_secret, SubSeq(ciphertext, 1, 1)))

StreamPacket_from_encrypted(shared_secret, ciphertext) ==
    decrypted_packet(decrypt(shared_secret, ciphertext))

\* StreamPacket::into_encrypted
into_encrypted(self, shared_secret) == encrypt(shared_secret, self.buffer_unencrypted)

\* (mutation) every frame of the response names the first stream
max_money_of_first_stream(money) ==
    [i \in 1..Len(money) |->
        [frame |-> "StreamMaxMoney", stream_id |-> money[1].stream_id,
         receive_max |-> U64_MAX, total_received |-> 0]]

\* a StreamMaxMoney frame for every StreamMoney frame of the packet
max_money(money) ==
    [i \in 1..Len(money) |->
        [frame |-> "StreamMaxMoney", stream_id |-> money[i].stream_id,
         receive_max |-> U64_MAX, total_received |-> 0]]
response_frames(stream_frames) ==
    max_money(SelectSeq(stream_frames, LAMBDA frame : frame.frame = "StreamMoney"))

\* the STREAM packet of the response
response_packet(stream_packet, ilp_packet_type, prepare_amount) ==
    build([sequence |-> stream_packet.sequence,
           ilp_packet_type |-> ilp_packet_type,
           prepare_amount |-> prepare_amount,
           frames |-> response_frames(frames(stream_packet))])

\* FulfillBuilder { .. }.build() and RejectBuilder { .. }.build()
Fulfill(fulfillment, data) ==
    [type |-> "Fulfill", fulfillment |-> fulfillment, data |-> data]
Reject(code, message, triggered_by, data) ==
    [type |-> "Reject", code |-> code, message |-> message, triggered_by |-> triggered_by,
     data |-> data]

\* (mutation) the amount has to be more than the packet's prepare_amount
answered_strictly(shared_secret, client_address, prepare, is_fulfillable, stream_packet) ==
    IF is_fulfillable /\ prepare.amount > stream_packet.prepare_amount
    THEN Ok(Fulfill(generate_fulfillment(shared_secret, prepare.data),
                    into_encrypted(response_packet(stream_packet, "Fulfill", prepare.amount),
                                   shared_secret)))
    ELSE Err(Reject(F99_APPLICATION_ERROR, <<>>, Some(client_address),
                    into_encrypted(response_packet(stream_packet, "Reject", prepare.amount),
                                   shared_secret)))

\* the answer to a Prepare whose data was parsed
answered(shared_secret, client_address, prepare, is_fulfillable, stream_packet) ==
    IF is_fulfillable /\ prepare.amount >= stream_packet.prepare_amount
    THEN Ok(Fulfill(generate_fulfillment(shared_secret, prepare.data),
                    into_encrypted(response_packet(stream_packet, "Fulfill", prepare.amount),
                                   shared_secret)))
    ELSE Err(Reject(F99_APPLICATION_ERROR, <<>>, Some(client_address),
                    into_encrypted(response_packet(stream_packet, "Reject", prepare.amount),
                                   shared_secret)))

\* (mutation) a Prepare whose condition does not match is rejected with F99
\* before its data is parsed
parsed_and_answered_condition_first(shared_secret, client_address, prepare, stream_packet) ==
    IF hash_sha256(generate_fulfillment(shared_secret, prepare.data))
           # prepare.execution_condition
    THEN Err(Reject(F99_APPLICATION_ERROR, <<>>, Some(client_address), <<>>))
    ELSE IF ~stream_packet.ok
    THEN Err(Reject(F06_UNEXPECTED_PAYMENT, could_not_decrypt_data, Some(client_address), <<>>))
    ELSE answered(shared_secret, client_address, prepare, TRUE, stream_packet.value)

\* the answer once the data went through StreamPacket::from_encrypted
parsed_and_answered(shared_secret, client_address, prepare, stream_packet) ==
    IF ~stream_packet.ok
    THEN Err(Reject(F06_UNEXPECTED_PAYMENT, could_not_decrypt_data, Some(client_address), <<>>))
    ELSE answered(shared_secret, client_address, prepare,
                  hash_sha256(generate_fulfillment(shared_secret, prepare.data))
                      = prepare.execution_condition,
                  stream_packet.value)

\* receive_money
receive_money(shared_secret, client_address, prepare) ==
    parsed_and_answered(shared_secret, client_address, prepare,
                        StreamPacket_from_encrypted(shared_secret, prepare.data))

\* what the next service answers: it rejects as another receiver
next_send_request(request) ==
    Err(Reject(F02_UNREACHABLE, <<>>, Some(lit(<<111, 116, 104, 101, 114>>)), <<>>))

\* the secret, if the request is for this STREAM server
shared_secret_of(self, request) ==
    IF starts_with(request.prepare.destination, request.to)
    THEN rederive_secret(self.connection_generator, request.prepare.destination)
    ELSE Err(<<>>)

\* (mutation) a Prepare the receiver rejects goes to the next service as well
sent_rejects_forwarded(request, shared_secret) ==
    IF shared_secret.ok
       /\ receive_money(shared_secret.value, request.to, request.prepare).ok
    THEN [forwarded |-> FALSE,
          result |-> receive_money(shared_secret.value, request.to, request.prepare)]
    ELSE [forwarded |-> TRUE, result |-> next_send_request(request)]

\* the answer of the service and whether the next service was asked for it
sent(request, shared_secret) ==
    IF shared_secret.ok
    THEN [forwarded |-> FALSE,
          result |-> receive_money(shared_secret.value, request.to, request.prepare)]
    ELSE [forwarded |-> TRUE, result |-> next_send_request(request)]

\* (mutation) the service keeps the secret it rederived for the request and
\* derives the secrets of the requests that follow from it
send_request_keeping_secret(self, request) ==
    LET shared_secret == shared_secret_of(self, request)
        answer == sent(request, shared_secret)
    IN  [service |-> IF shared_secret.ok
                     THEN [self EXCEPT !.connection_generator.secret_generator =
                                           shared_secret.value]
                     ELSE self,
         forwarded |-> answer.forwarded,
         result |-> answer.result]

\* StreamReceiverService::send_request(&mut self, request): the service after
\* the call, none of whose fields the call assigns, whether the next service
\* was asked, and the result
send_request(self, request) ==
    [service |-> self] @@ sent(request, shared_secret_of(self, request))

----------------------------------------------------------------------------
(* The receiving side at work: a service is created with a server secret,
   addresses are generated for connections, and requests reach the service.
     service      the StreamReceiverService, once created
     connections  what generate_address_and_secret returned so far
     handled      the first request the service got and the latest one, each
                  with the result of send_request
     forwarded    the request the next service got during the latest call *)

\* the most connections generated
MaxConnections == 2

\* [1; 32] and [9; 32]
server_secret(byte) == lit([i \in 1..32 |-> byte])
ServerSecrets == {server_secret(1), server_secret(9)}
\* secrets that are not of 32 bytes: of none, 1, 31 and 33
WrongSecrets == {lit([i \in 1..n |-> 9]) : n \in {0, 1, 31, 33}}

\* "example.destination" and "example.receiver"
example_destination ==
    lit(<<101, 120, 97, 109, 112, 108, 101, 46, 100, 101, 115, 116, 105, 110, 97, 116,
          105, 111, 110>>)
example_receiver ==
    lit(<<101, 120, 97, 109, 112, 108, 101, 46, 114, 101, 99, 101, 105, 118, 101, 114>>)
BaseAddresses == {example_destination, example_receiver}

\* test_stream_packet(), with the prepare_amount of the sender's choice
test_stream_packet(prepare_amount) ==
    build([ilp_packet_type |-> "Prepare", prepare_amount |-> prepare_amount, sequence |-> 1,
           frames |-> << [frame |-> "StreamMoney", stream_id |-> 1, shares |-> 1] >>])

\* the amount of the Prepares and the prepare_amounts of their STREAM packets
PrepareAmount == 100
PrepareAmounts == {0, PrepareAmount, PrepareAmount + 1}

\* the STREAM packets of the Prepares
stream_packets ==
    [prepare_amount \in PrepareAmounts |-> test_stream_packet(prepare_amount)]

\* STREAM packets with another sequence number and other frames: money for two
\* streams around a frame of another kind
framed_stream_packets ==
    {build([ilp_packet_type |-> "Prepare", prepare_amount |-> prepare_amount, sequence |-> 7,
            frames |-> << [frame |-> "StreamMoney", stream_id |-> 2, shares |-> 1],
                          [frame |-> "StreamClose", stream_id |-> 2,
                           code |-> "NoError", message |-> <<>>],
                          [frame |-> "StreamMoney", stream_id |-> 5, shares |-> 3] >>]) :
        prepare_amount \in {PrepareAmount, PrepareAmount + 1}}

\* the STREAM packets the Prepares of the model carry
incoming_stream_packets ==
    {stream_packets[prepare_amount] : prepare_amount \in PrepareAmounts}
    \cup framed_stream_packets

\* bytes that are no STREAM packet: the version is not 1
no_stream_packet == <<2, 12, 1, 1, 1, 0, 1, 0>>

\* the character or byte of the string at a position, changed
changed_chunk(chunk, bits) ==
    IF chunk[1] = "lit"
    THEN <<"lit", <<IF chunk[2][1] = 122 THEN 97 ELSE chunk[2][1] + 1>> >>
    ELSE <<"b64x", chunk[2], chunk[3], bits>>
changed(string, position, bits) ==
    str_concat(str_concat(str_take(string, position - 1),
                          <<changed_chunk(str_take(str_drop(string, position - 1), 1)[1], bits)>>),
               str_drop(string, position))

\* "extra"
extra == lit(<<101, 120, 116, 114, 97>>)

\* a destination with the local part of another
with_local_part(destination_account, other) ==
    str_concat(str_take(destination_account, str_len(destination_account) - 43),
               str_drop(other, str_len(other) - 43))

\* a destination with the token of another and its own auth tag
with_token(destination_account, other) ==
    str_concat(str_concat(str_take(destination_account, str_len(destination_account) - 43),
                          str_take(str_drop(other, str_len(other) - 43), 24)),
               str_drop(destination_account, str_len(destination_account) - 19))

\* the destinations made of a generated one by modifying it: a suffix segment,
\* a byte of the base, a character of the token, a character of the auth tag
\* (the last one in its data bits and in its unused bits), a character less, and
\* the tokens, auth tags and bases of the other generated destinations
Modified(destination_account, others) ==
    ({with_suffix(destination_account, extra),
      changed(destination_account, 1, "data"),
      changed(destination_account, str_len(destination_account) - 44, "data"),
      changed(destination_account, str_len(destination_account) - 42, "data"),
      changed(destination_account, str_len(destination_account) - 19, "data"),
      changed(destination_account, str_len(destination_account) - 18, "data"),
      changed(destination_account, str_len(destination_account), "data"),
      changed(destination_account, str_len(destination_account), "unused"),
      str_take(destination_account, str_len(destination_account) - 1)}
     \cup {with_local_part(destination_account, other) : other \in others}
     \cup {with_token(destination_account, other) : other \in others}
     \cup {with_token(other, destination_account) : other \in others})
    \ ({destination_account} \cup others)

\* the destinations generated so far
Generated == {connection.destination_account : connection \in connections}

\* the data of a Prepare as it reaches the receiver, with its condition: the
\* encrypted STREAM packet as the sender made it, with its condition or a random
\* one; the same with a byte appended or a byte changed, with the condition of
\* the bytes that arrive or of the bytes that were sent; the packet encrypted
\* with another secret; and bytes that are no STREAM packet
Payloads(shared_secret) ==
    UNION {{[data |-> into_encrypted(stream_packets[prepare_amount], shared_secret),
             execution_condition |-> execution_condition] :
                execution_condition \in
                    {generate_condition(
                         shared_secret,
                         into_encrypted(stream_packets[prepare_amount], shared_secret)),
                     hash_sha256(generate_token(0))}} :
           prepare_amount \in PrepareAmounts}
    \cup UNION {{[data |-> data, execution_condition |-> execution_condition] :
                    execution_condition \in
                        {generate_condition(shared_secret, data),
                         generate_condition(
                             shared_secret,
                             into_encrypted(stream_packets[0], shared_secret))}} :
                data \in
                    {str_concat(into_encrypted(stream_packets[0], shared_secret),
                                lit(<<120>>)),
                     << <<"encx", shared_secret,
                          stream_packets[0].buffer_unencrypted>> >>}}
    \cup {[data |-> data, execution_condition |-> generate_condition(shared_secret, data)] :
            data \in {into_encrypted(stream_packets[0], hash_sha256(shared_secret)),
                      encrypt(shared_secret, no_stream_packet)}}

\* the destinations a Prepare for a generated one arrives with when it was
\* modified on its way
Misdirected(destination_account) ==
    {with_suffix(destination_account, extra),
     changed(destination_account, str_len(destination_account), "unused"),
     changed(destination_account, str_len(destination_account) - 42, "data")}

Prepare(destination, amount, execution_condition, data) ==
    [destination |-> destination, amount |-> amount,
     execution_condition |-> execution_condition, data |-> data]

OutgoingRequest(to, prepare) == [to |-> to, prepare |-> prepare]

\* the requests for a connection: to the account of its base address, with every
\* payload and with the destination modified or not, and to the other accounts
RequestsFor(connection) ==
    {OutgoingRequest(connection.base_address,
                     Prepare(connection.destination_account, PrepareAmount,
                             payload.execution_condition, payload.data)) :
        payload \in Payloads(connection.shared_secret)}
    \cup {OutgoingRequest(connection.base_address,
                          Prepare(destination, PrepareAmount,
                                  generate_condition(
                                      connection.shared_secret,
                                      into_encrypted(stream_packets[0],
                                                     connection.shared_secret)),
                                  into_encrypted(stream_packets[0],
                                                 connection.shared_secret))) :
            destination \in Misdirected(connection.destination_account)}
    \cup {OutgoingRequest(to,
                          Prepare(connection.destination_account, PrepareAmount,
                                  generate_condition(
                                      connection.shared_secret,
                                      into_encrypted(stream_packets[0],
                                                     connection.shared_secret)),
                                  into_encrypted(stream_packets[0],
                                                 connection.shared_secret))) :
            to \in BaseAddresses}
    \cup {OutgoingRequest(connection.base_address,
                          Prepare(connection.destination_account, PrepareAmount,
                                  generate_condition(
                                      connection.shared_secret,
                                      into_encrypted(stream_packet, connection.shared_secret)),
                                  into_encrypted(stream_packet, connection.shared_secret))) :
            stream_packet \in framed_stream_packets}

Requests == UNION {RequestsFor(connection) : connection \in connections}

ReceiverInit ==
    /\ receiver_at_rest
    /\ controller_at_rest
    /\ streams_at_rest
    /\ sender_at_rest
    /\ codec_at_rest

\* StreamReceiverService::new(server_secret, next)
New(secret) ==
    /\ service = None
    /\ ~service_panic
    /\ IF StreamReceiverService_new(secret).ok
       THEN /\ service' = Some(StreamReceiverService_new(secret).value)
            /\ service_panic' = FALSE
       ELSE /\ service' = None
            /\ service_panic' = TRUE
    /\ UNCHANGED <<connections, handled, forwarded, sender_vars, codec_vars, controller_vars, stream_vars>>

\* connection_generator.generate_address_and_secret(base_address): every call
\* draws a token that was not drawn before
GenerateAddressAndSecret(base_address) ==
    /\ is_some(service)
    /\ Cardinality(connections) < MaxConnections
    /\ LET pair == generate_address_and_secret(unwrap(service).connection_generator,
                                                base_address, Cardinality(connections) + 1)
       IN  connections' = connections \cup
               {[base_address |-> base_address,
                 destination_account |-> pair.destination_account,
                 shared_secret |-> pair.shared_secret]}
    /\ UNCHANGED <<service, service_panic, handled, forwarded, sender_vars, codec_vars, controller_vars, stream_vars>>

\* what is kept of the requests handled: the first and the latest
logged(entry) == IF handled = <<>> THEN <<entry>> ELSE <<handled[1], entry>>

\* service.send_request(request), on the service as the calls before left it
SendRequest(request) ==
    /\ is_some(service)
    /\ \E answer \in {send_request(unwrap(service), request)} :
           /\ service' = Some(answer.service)
           /\ handled' = logged([request |-> request, result |-> answer.result])
           /\ forwarded' = IF answer.forwarded THEN <<request>> ELSE <<>>
    /\ UNCHANGED <<service_panic, connections, sender_vars, codec_vars, controller_vars, stream_vars>>

ReceiverNext ==
    \/ \E secret \in ServerSecrets \cup WrongSecrets : New(secret)
    \/ \E base_address \in BaseAddresses : GenerateAddressAndSecret(base_address)
    \/ \E request \in Requests : SendRequest(request)

ReceiverSpec == ReceiverInit /\ [][ReceiverNext]_vars

\* the latest request handled, with its result
latest == handled[Len(handled)]

\* the latest request was sent to the account of the connection, for its
\* destination as it was generated
latest_is_for(connection) ==
    /\ handled # <<>>
    /\ latest.request.to = connection.base_address
    /\ latest.request.prepare.destination = connection.destination_account

\* the result is the Reject of the code, triggered by the address, with the data
rejected_with(entry, code, client_address) ==
    /\ ~entry.result.ok
    /\ entry.result.value.type = "Reject"
    /\ entry.result.value.code = code
    /\ entry.result.value.triggered_by = Some(client_address)

\* C11: for a Prepare whose data decrypts to a STREAM packet under the shared
\* secret, receive_money returns Fulfill if and only if the SHA-256 of
\* generate_fulfillment(secret, data) is the Prepare's execution_condition and the
\* Prepare's amount is at least the packet's prepare_amount; otherwise it returns
\* Reject with F99_APPLICATION_ERROR, triggered by the client address
C11_ReceiverDecision ==
    \A connection \in connections, prepare_amount \in PrepareAmounts :
        ( /\ latest_is_for(connection)
          /\ latest.request.prepare.data
                 = encrypt(connection.shared_secret,
                           stream_packets[prepare_amount].buffer_unencrypted) )
            => IF /\ latest.request.prepare.execution_condition
                        = hash_sha256(generate_fulfillment(connection.shared_secret,
                                                           latest.request.prepare.data))
                  /\ latest.request.prepare.amount >= prepare_amount
               THEN /\ latest.result.ok
                    /\ latest.result.value.type = "Fulfill"
                    /\ latest.result.value.fulfillment
                           = generate_fulfillment(connection.shared_secret,
                                                  latest.request.prepare.data)
               ELSE rejected_with(latest, F99_APPLICATION_ERROR, connection.base_address)

\* a Prepare whose amount is the packet's prepare_amount was fulfilled, then
\* one with the right condition and an amount one too small was rejected with F99
C11_Witness ==
    \E connection \in connections :
        /\ Len(handled) = 2
        /\ latest_is_for(connection)
        /\ handled[1].request.prepare.data
               = encrypt(connection.shared_secret,
                         stream_packets[PrepareAmount].buffer_unencrypted)
        /\ handled[1].result.ok
        /\ latest.request.prepare.data
               = encrypt(connection.shared_secret,
                         stream_packets[PrepareAmount + 1].buffer_unencrypted)
        /\ latest.request.prepare.execution_condition
               = generate_condition(connection.shared_secret, latest.request.prepare.data)
        /\ rejected_with(latest, F99_APPLICATION_ERROR, connection.base_address)

\* the data of the latest Prepare is the sender's encrypted packet with one byte
\* changed, and its condition is the one computed before the change
latest_was_mutated(connection) ==
    /\ latest_is_for(connection)
    /\ latest.request.prepare.data
           = << <<"encx", connection.shared_secret, stream_packets[0].buffer_unencrypted>> >>
    /\ latest.request.prepare.execution_condition
           = generate_condition(connection.shared_secret,
                                into_encrypted(stream_packets[0], connection.shared_secret))

\* the latest Prepare is as the sender built it: the encrypted packet, its
\* condition, amount 100
latest_is_correct(connection) ==
    /\ latest_is_for(connection)
    /\ latest.request.prepare.data = into_encrypted(stream_packets[0], connection.shared_secret)
    /\ latest.request.prepare.execution_condition
           = generate_condition(connection.shared_secret, latest.request.prepare.data)
    /\ latest.request.prepare.amount = 100

\* C12 as stated: a correctly built Prepare is fulfilled, and when one byte of
\* its data is changed after the condition was computed the receiver returns a
\* Reject with F99_APPLICATION_ERROR
C12_Original ==
    \A connection \in connections :
        /\ latest_is_correct(connection) => latest.result.ok
        /\ latest_was_mutated(connection)
               => rejected_with(latest, F99_APPLICATION_ERROR, connection.base_address)

\* C12 (amended): a correctly built Prepare is fulfilled, and when one byte of
\* its data is changed after the condition was computed the data no longer
\* decrypts and the receiver returns a Reject with F06_UNEXPECTED_PAYMENT and no
\* data
C12_Amended ==
    \A connection \in connections :
        /\ latest_is_correct(connection)
               => latest.result.ok /\ latest.result.value.type = "Fulfill"
        /\ latest_was_mutated(connection)
               => /\ rejected_with(latest, F06_UNEXPECTED_PAYMENT, connection.base_address)
                  /\ latest.result.value.data = <<>>

\* the correct Prepare was fulfilled and then, with a byte changed, rejected
C12_Witness ==
    \E connection \in connections :
        /\ Len(handled) = 2
        /\ handled[1].request.prepare.data
               = into_encrypted(stream_packets[0], connection.shared_secret)
        /\ handled[1].request.prepare.execution_condition
               = latest.request.prepare.execution_condition
        /\ handled[1].result.ok
        /\ latest_was_mutated(connection)
        /\ ~latest.result.ok

\* C13: when the data of the Prepare cannot be decrypted or parsed as a STREAM
\* packet with the shared secret, receive_money returns a Reject with
\* F06_UNEXPECTED_PAYMENT, no data, triggered by the client address, whether or
\* not the execution condition matches the data
C13_UnreadableData ==
    \A connection \in connections :
        ( /\ latest_is_for(connection)
          /\ \A stream_packet \in incoming_stream_packets :
                 latest.request.prepare.data
                     # encrypt(connection.shared_secret, stream_packet.buffer_unencrypted) )
            => /\ rejected_with(latest, F06_UNEXPECTED_PAYMENT, connection.base_address)
               /\ latest.result.value.data = <<>>

\* the data with a byte appended, the condition computed over the extended
\* data, was rejected with F06
C13_Witness ==
    \E connection \in connections :
        /\ latest_is_for(connection)
        /\ latest.request.prepare.data
               = str_concat(into_encrypted(stream_packets[0], connection.shared_secret),
                            lit(<<120>>))
        /\ latest.request.prepare.execution_condition
               = generate_condition(connection.shared_secret, latest.request.prepare.data)
        /\ rejected_with(latest, F06_UNEXPECTED_PAYMENT, connection.base_address)
        /\ latest.result.value.data = <<>>

\* C14: the decision, the reject code and the response of the receiver for a
\* Prepare depend on the shared secret, the client address and that Prepare
\* only: handling a request leaves nothing behind in the service, the result
\* for the destination of a connection is the one receive_money gives for the
\* secret generated with the connection, the account and the Prepare, and the
\* request the service got first gets the same result when it comes again
\* after any other requests
C14_Stateless ==
    /\ [][is_some(service) => service' = service]_vars
    /\ [](\A connection \in connections :
              latest_is_for(connection)
                  => LET expected == receive_money(connection.shared_secret,
                                                 connection.base_address,
                                                 latest.request.prepare)
                     IN  /\ latest.result.ok = expected.ok
                         /\ latest.result.value.type = expected.value.type
                         /\ latest.result = expected)
    /\ []((Len(handled) = 2 /\ handled[1].request = latest.request)
            => /\ handled[1].result.ok = latest.result.ok
               /\ handled[1].result.value.type = latest.result.value.type
               /\ handled[1].result = latest.result)

\* the first request came again, after another connection was generated, and
\* was fulfilled both times
C14_Witness ==
    /\ Len(handled) = 2
    /\ handled[1].request = latest.request
    /\ Cardinality(connections) = 2
    /\ \E connection \in connections :
           /\ latest_is_for(connection)
           /\ connection.shared_secret
                  = generate_address_and_secret(unwrap(service).connection_generator,
                                                connection.base_address, 1).shared_secret
    /\ handled[1].result.ok
    /\ latest.result.ok

\* the latest request was for this STREAM server: its destination starts with
\* the address of the account and is one the generator made
latest_is_local ==
    /\ starts_with(latest.request.prepare.destination, latest.request.to)
    /\ latest.request.prepare.destination \in Generated

\* C15: send_request hands the request to the next service if and only if the
\* destination does not start with the account's address or the secret cannot
\* be re-derived from it; a request whose secret is re-derived is answered by
\* the receiver, with a Fulfill or a Reject, and the next service is not asked
C15_ForwardOrAnswer ==
    handled # <<>>
        => /\ forwarded = <<>> <=> latest_is_local
           /\ latest_is_local
                  => \/ latest.result.ok
                     \/ /\ latest.result.value.triggered_by = Some(latest.request.to)
                        /\ latest.result.value.code
                               \in {F99_APPLICATION_ERROR, F06_UNEXPECTED_PAYMENT}
           /\ ~latest_is_local
                  => /\ forwarded = <<latest.request>>
                     /\ latest.result = next_send_request(latest.request)

\* a request was answered with a Reject by the receiver, and the next service
\* was not asked; the request before it went to the next service
C15_Witness ==
    /\ Len(handled) = 2
    /\ latest_is_local
    /\ ~latest.result.ok
    /\ latest.result.value.code = F99_APPLICATION_ERROR
    /\ forwarded = <<>>
    /\ handled[1].result = next_send_request(handled[1].request)

\* C16: the destination of every call of generate_address_and_secret starts
\* with the base address and '.', its last segment decodes to 32 bytes, and
\* rederive_secret gives the shared secret that was returned with it
C16_AddressRoundTrip ==
    \A connection \in connections :
        /\ starts_with(connection.destination_account,
                       str_concat(connection.base_address, lit(<<DOT>>)))
        /\ base64_decode(last_segment(connection.destination_account)).ok
        /\ str_len(base64_decode(last_segment(connection.destination_account)).value) = 32
        /\ rederive_secret(unwrap(service).connection_generator,
                           connection.destination_account).ok
        /\ rederive_secret(unwrap(service).connection_generator,
                           connection.destination_account).value
               = connection.shared_secret

\* two calls for the same base address gave two destinations and two secrets
C16_Witness ==
    \E first \in connections, second \in connections :
        /\ first.base_address = second.base_address
        /\ first.destination_account # second.destination_account
        /\ first.shared_secret # second.shared_secret
        /\ str_len(first.destination_account) = str_len(first.base_address) + 44
        /\ rederive_secret(unwrap(service).connection_generator,
                           second.destination_account).ok

\* the generators of the other server secrets
OtherGenerators ==
    {ConnectionGenerator_new(secret).value : secret \in ServerSecrets}
    \ {unwrap(service).connection_generator}

\* C17: rederive_secret gives the shared secret of a generated destination for
\* that destination only: not for the destination with a suffix segment, with a
\* byte of the base, a character of the token or a character of the auth tag
\* changed, nor under another server secret
C17_ModifiedAddress ==
    \A connection \in connections :
        /\ \A address \in Modified(connection.destination_account,
                                  Generated \ {connection.destination_account}) :
               ~rederive_secret(unwrap(service).connection_generator, address).ok
        /\ \A generator \in OtherGenerators :
               ~rederive_secret(generator, connection.destination_account).ok

\* a destination with the token of another decodes to 32 bytes and is refused
\* for its auth tag, and the destination with "extra" appended is refused
C17_Witness ==
    \E connection \in connections, other \in Generated :
        /\ other # connection.destination_account
        /\ base64_decode(last_segment(with_token(connection.destination_account, other))).ok
        /\ str_len(base64_decode(
                       last_segment(with_token(connection.destination_account, other))).value)
               = 32
        /\ ~rederive_secret(unwrap(service).connection_generator,
                            with_token(connection.destination_account, other)).ok
        /\ ~rederive_secret(unwrap(service).connection_generator,
                            with_suffix(connection.destination_account, extra)).ok

\* the stream ids of the StreamMoney frames, in the order of the frames
RECURSIVE money_stream_ids(_)
money_stream_ids(stream_frames) ==
    IF stream_frames = <<>> THEN <<>>
    ELSE (IF Head(stream_frames).frame = "StreamMoney"
          THEN <<Head(stream_frames).stream_id>> ELSE <<>>)
         \o money_stream_ids(Tail(stream_frames))

\* the packet in the data of the response is of the type, echoes the sequence,
\* has the amount as prepare_amount and holds one StreamMaxMoney{stream_id,
\* u64::MAX, 0} frame for each of the stream ids, in their order
responds_with(response, ilp_packet_type, sequence, amount, stream_ids) ==
    /\ response.ok
    /\ response.value.ilp_packet_type = ilp_packet_type
    /\ response.value.sequence = sequence
    /\ response.value.prepare_amount = amount
    /\ Len(frames(response.value)) = Len(stream_ids)
    /\ \A i \in 1..Len(stream_ids) :
           frames(response.value)[i]
               = [frame |-> "StreamMaxMoney", stream_id |-> stream_ids[i],
                  receive_max |-> U64_MAX, total_received |-> 0]

\* C33: the STREAM packet in the data of the receiver's Fulfill, and of its F99
\* Reject, echoes the sequence of the incoming STREAM packet, has the amount of
\* the ILP Prepare as prepare_amount, and holds one StreamMaxMoney{stream_id,
\* receive_max u64::MAX, total_received 0} frame for every incoming StreamMoney
\* frame, in the same order, and no other frame
C33_ResponsePacket ==
    \A connection \in connections, stream_packet \in incoming_stream_packets :
        ( /\ latest_is_for(connection)
          /\ latest.request.prepare.data
                 = into_encrypted(stream_packet, connection.shared_secret) )
            => responds_with(
                   StreamPacket_from_encrypted(connection.shared_secret,
                                               latest.result.value.data),
                   IF latest.result.ok THEN "Fulfill" ELSE "Reject",
                   stream_packet.sequence,
                   latest.request.prepare.amount,
                   money_stream_ids(frames(stream_packet)))

\* the packet of sequence 7 with money for the streams 2 and 5 was fulfilled,
\* then the same with a prepare_amount one too large was rejected with F99:
\* both responses hold the frames for the streams 2 and 5
C33_Witness ==
    \E connection \in connections :
        /\ Len(handled) = 2
        /\ latest_is_for(connection)
        /\ handled[1].result.ok
        /\ rejected_with(latest, F99_APPLICATION_ERROR, connection.base_address)
        /\ \A i \in 1..2 :
               LET response == StreamPacket_from_encrypted(connection.shared_secret,
                                                           handled[i].result.value.data)
               IN  /\ response.ok
                   /\ response.value.sequence = 7
                   /\ Len(frames(response.value)) = 2
                   /\ frames(response.value)[1].stream_id = 2
                   /\ frames(response.value)[2].stream_id = 5

----------------------------------------------------------------------------
(* CongestionController of src/stream/congestion.rs: packets are known by id *)

\* the bits of the significand of an f64, for a u64 of U64_BITS bits (53 of 64)
F64_MANTISSA_BITS == (53 * U64_BITS) \div 64

\* the number of bits of n
RECURSIVE bit_length(_)
bit_length(n) == IF n = 0 THEN 0 ELSE 1 + bit_length(n \div 2)

\* n with its lowest bits rounded away, to the nearest, ties to even
rounded_to(n, unit) ==
    IF n % unit > unit \div 2 \/ (n % unit = unit \div 2 /\ (n \div unit) % 2 = 1)
    THEN (n \div unit + 1) * unit
    ELSE (n \div unit) * unit

\* `n as f64`: the nearest number that has F64_MANTISSA_BITS significant bits
as_f64(n) ==
    IF bit_length(n) <= F64_MANTISSA_BITS THEN n
    ELSE rounded_to(n, 2^(bit_length(n) - F64_MANTISSA_BITS))

\* (max_in_flight as f64 / decrease_factor).floor() as u64, for a
\* decrease_factor that is a power of two: the division is exact, and the
\* conversion back to u64 stops at u64::MAX (u64::MAX as f64 is 2^64)
decreased(max_in_flight, decrease_factor) ==
    min(as_f64(max_in_flight) \div decrease_factor, U64_MAX)

\* HashMap::new(), insert, remove
no_packets == <<>>
insert(packets, id, amount) ==
    [key \in DOMAIN packets \cup {id} |-> IF key = id THEN amount ELSE packets[key]]
remove(packets, id) ==
    [key \in DOMAIN packets \ {id} |-> packets[key]]

\* CongestionController::new
new(start_amount, increase_amount, decrease_factor) ==
    [state |-> "SlowStart",
     increase_amount |-> increase_amount,
     decrease_factor |-> decrease_factor,
     max_packet_amount |-> None,
     amount_in_flight |-> 0,
     max_in_flight |-> start_amount,
     packets |-> no_packets]

\* CongestionController::default
default == new(1000, 1000, 2)

\* CongestionController::set_max_packet_amount
set_max_packet_amount(self, max_packet_amount) ==
    [self EXCEPT !.max_packet_amount = Some(max_packet_amount)]

\* a - b of two u64: with overflow checks a panic when b > a, else wrapped
checked_sub(a, b) ==
    IF b <= a THEN Ok(a - b)
    ELSE IF checks THEN Err("panic") ELSE Ok(a - b + U64_MAX + 1)

\* a + b of two u64: with overflow checks a panic above u64::MAX, else wrapped
checked_add(a, b) ==
    IF a + b <= U64_MAX THEN Ok(a + b)
    ELSE IF checks THEN Err("panic") ELSE Ok(a + b - (U64_MAX + 1))

\* what is left of the window, capped by the max_packet_amount
capped(self, amount_left_in_window) ==
    IF ~amount_left_in_window.ok THEN amount_left_in_window
    ELSE IF is_some(self.max_packet_amount)
    THEN Ok(min(amount_left_in_window.value, unwrap(self.max_packet_amount)))
    ELSE amount_left_in_window

\* CongestionController::get_max_amount: the amount, or the panic of the subtraction
get_max_amount(self) ==
    capped(self, checked_sub(self.max_in_flight, self.amount_in_flight))

\* the controller with the packet in flight
prepared(self, id, amount, amount_in_flight) ==
    IF ~amount_in_flight.ok THEN amount_in_flight
    ELSE Ok([self EXCEPT !.amount_in_flight = amount_in_flight.value,
                         !.packets = insert(self.packets, id, amount)])

\* CongestionController::prepare: the controller, or the panic of the addition
prepare(self, id, amount) ==
    IF amount > 0
    THEN prepared(self, id, amount, checked_add(self.amount_in_flight, amount))
    ELSE Ok(self)

\* (mutation) the window is doubled without a look at u64::MAX
doubled_wrapping(max_in_flight) ==
    (max_in_flight * 2) % (U64_MAX + 1)

\* double the max in flight but don't exceed the u64 max value
doubled(max_in_flight) ==
    IF U64_MAX \div 2 >= max_in_flight THEN max_in_flight * 2 ELSE U64_MAX

\* (mutation) the window grows without a look at u64::MAX
increased_wrapping(max_in_flight, increase_amount) ==
    (max_in_flight + increase_amount) % (U64_MAX + 1)

\* add to the max in flight but don't exceed the u64 max value
increased(max_in_flight, increase_amount) ==
    IF U64_MAX - increase_amount >= max_in_flight
    THEN max_in_flight + increase_amount
    ELSE U64_MAX

\* CongestionController::fulfill: the controller after the call. The packet is
\* taken out of the map, then `self.amount_in_flight -= amount` is a u64
\* subtraction: it wraps, or with overflow checks it panics and leaves the
\* controller with the packet removed and nothing else changed (Err)
fulfill(self, id) ==
    IF id \in DOMAIN self.packets
    THEN LET removed == [self EXCEPT !.packets = remove(@, id)]
             amount_in_flight == checked_sub(self.amount_in_flight, self.packets[id])
         IN  IF ~amount_in_flight.ok THEN Err(removed)
             ELSE Ok([removed EXCEPT
                         !.amount_in_flight = amount_in_flight.value,
                         !.max_in_flight =
                             IF self.state = "SlowStart"
                             THEN doubled(@)
                             ELSE increased(@, self.increase_amount)])
    ELSE Ok(self)

\* CongestionController::reject: the controller after the call, with the same
\* u64 subtraction as fulfill
reject(self, id, error_code) ==
    IF id \in DOMAIN self.packets
    THEN LET removed == [self EXCEPT !.packets = remove(@, id)]
             amount_in_flight == checked_sub(self.amount_in_flight, self.packets[id])
         IN  IF ~amount_in_flight.ok THEN Err(removed)
             ELSE IF error_code = "T04"
             THEN Ok([removed EXCEPT
                         !.amount_in_flight = amount_in_flight.value,
                         !.state = "AvoidCongestion",
                         !.max_in_flight = max(decreased(@, self.decrease_factor), 1)])
             ELSE Ok([removed EXCEPT !.amount_in_flight = amount_in_flight.value])
    ELSE Ok(self)

----------------------------------------------------------------------------
(* The controller at work: a connection creates it and calls it for its packets *)

\* the calls made on one controller
MaxCalls == 6
\* the packets, by id
MaxPackets == 2
PacketIds == 1..MaxPackets

\* the start amounts: 1, the 1000 of default(), and the windows next to u64::MAX
StartAmounts == {1, 1000, U64_MAX - 1, U64_MAX}
\* the increase amounts: the 1000 of default(), and one that takes any window
\* to u64::MAX
IncreaseAmounts == {1000, U64_MAX}
\* the decrease factors: the 2.0 of default(), and 1.0, which leaves the window
\* to the conversions to f64 and back
DecreaseFactors == {1, 2}
\* the amounts of the packets, besides the whole of get_max_amount()
PacketAmounts == {0, 400}
\* the error codes of the rejects
ErrorCodes == {"T04", "F08", "F99"}
\* the max_packet_amount of the tests
MaxPacketAmounts == {100}

\* a call: its number, its name and arguments, the controller it was made on,
\* what it returned, whether it panicked, and whether every packet so far was
\* prepared with an amount get_max_amount() allowed at the time
Call(name, arguments, before, outcome) ==
    [number |-> IF called = None THEN 1 ELSE unwrap(called).number + 1,
     name |-> name, arguments |-> arguments, before |-> before,
     returned |-> outcome, panicked |-> ~outcome.ok,
     within_window |->
         /\ called = None \/ unwrap(called).within_window
         /\ name = "prepare"
                => /\ get_max_amount(before).ok
                   /\ arguments[2] <= get_max_amount(before).value]

\* the controller takes another call
alive ==
    /\ is_some(controller)
    /\ unwrap(called).number < MaxCalls
    /\ ~unwrap(called).panicked

\* the amounts a packet is prepared with: the fixed ones and get_max_amount()
amounts_to_prepare(self) ==
    PacketAmounts
    \cup (IF get_max_amount(self).ok THEN {get_max_amount(self).value} ELSE {})

ControllerInit ==
    /\ controller = None
    /\ checks \in BOOLEAN
    /\ called = None
    /\ rounds = None
    /\ sender_at_rest
    /\ codec_at_rest
    /\ receiver_at_rest
    /\ streams_at_rest

\* CongestionController::new(start_amount, increase_amount, decrease_factor)
CallNew(start_amount, increase_amount, decrease_factor) ==
    /\ controller = None
    /\ controller' = Some(new(start_amount, increase_amount, decrease_factor))
    /\ called' = Some(Call("new", <<start_amount, increase_amount, decrease_factor>>,
                           new(start_amount, increase_amount, decrease_factor), Ok(<<>>)))
    /\ rounds' = Some([start_amount |-> start_amount, completed |-> 0])
    /\ UNCHANGED <<checks, sender_vars, codec_vars, receiver_vars, stream_vars>>

\* controller.set_max_packet_amount(max_packet_amount)
CallSetMaxPacketAmount(max_packet_amount) ==
    /\ alive
    /\ controller' = Some(set_max_packet_amount(unwrap(controller), max_packet_amount))
    /\ called' = Some(Call("set_max_packet_amount", <<max_packet_amount>>,
                           unwrap(controller), Ok(<<>>)))
    /\ UNCHANGED <<checks, rounds, sender_vars, codec_vars, receiver_vars, stream_vars>>

\* controller.get_max_amount()
CallGetMaxAmount ==
    /\ alive
    /\ called' = Some(Call("get_max_amount", <<>>, unwrap(controller),
                           get_max_amount(unwrap(controller))))
    /\ UNCHANGED <<controller, checks, rounds, sender_vars, codec_vars, receiver_vars, stream_vars>>

\* controller.prepare(id, amount): a round begins when nothing is in flight
CallPrepare(id) ==
    /\ alive
    /\ \E amount \in amounts_to_prepare(unwrap(controller)) :
           /\ controller' = IF prepare(unwrap(controller), id, amount).ok
                            THEN Some(prepare(unwrap(controller), id, amount).value)
                            ELSE controller
           /\ called' = Some(Call("prepare", <<id, amount>>, unwrap(controller),
                                  IF prepare(unwrap(controller), id, amount).ok
                                  THEN Ok(<<>>) ELSE Err("panic")))
           /\ rounds' = IF amount > 0 /\ unwrap(controller).packets = no_packets
                        THEN rounds ELSE None
    /\ UNCHANGED <<checks, sender_vars, codec_vars, receiver_vars, stream_vars>>

\* controller.fulfill(id): a round ends when the packet was in flight; a call
\* that panics leaves the controller as the panic found it
CallFulfill(id) ==
    /\ alive
    /\ controller' = Some(fulfill(unwrap(controller), id).value)
    /\ called' = Some(Call("fulfill", <<id>>, unwrap(controller),
                           IF fulfill(unwrap(controller), id).ok
                           THEN Ok(<<>>) ELSE Err("panic")))
    /\ rounds' = IF /\ is_some(rounds)
                    /\ id \in DOMAIN unwrap(controller).packets
                    /\ fulfill(unwrap(controller), id).ok
                 THEN Some([unwrap(rounds) EXCEPT !.completed = @ + 1]) ELSE None
    /\ UNCHANGED <<checks, sender_vars, codec_vars, receiver_vars, stream_vars>>

\* controller.reject(id, error_code)
CallReject(id, error_code) ==
    /\ alive
    /\ controller' = Some(reject(unwrap(controller), id, error_code).value)
    /\ called' = Some(Call("reject", <<id, error_code>>, unwrap(controller),
                           IF reject(unwrap(controller), id, error_code).ok
                           THEN Ok(<<>>) ELSE Err("panic")))
    /\ rounds' = None
    /\ UNCHANGED <<checks, sender_vars, codec_vars, receiver_vars, stream_vars>>

ControllerNext ==
    \/ \E start_amount \in StartAmounts, increase_amount \in IncreaseAmounts,
          decrease_factor \in DecreaseFactors :
           CallNew(start_amount, increase_amount, decrease_factor)
    \/ \E max_packet_amount \in MaxPacketAmounts : CallSetMaxPacketAmount(max_packet_amount)
    \/ CallGetMaxAmount
    \/ \E id \in PacketIds : CallPrepare(id)
    \/ \E id \in PacketIds : CallFulfill(id)
    \/ \E id \in PacketIds, error_code \in ErrorCodes : CallReject(id, error_code)

ControllerSpec == ControllerInit /\ [][ControllerNext]_vars

\* the latest call, and the controller it was made on
the_call == unwrap(called)
was_in_flight(id) == id \in DOMAIN the_call.before.packets

\* C24: after N consecutive prepare-then-fulfill rounds on a controller created
\* with the start amount A, the controller is in SlowStart and max_in_flight is
\* min(A * 2^N, u64::MAX): the doubling stops at u64::MAX
C24_SlowStart ==
    (is_some(controller) /\ is_some(rounds) /\ unwrap(controller).packets = no_packets)
        => /\ unwrap(controller).state = "SlowStart"
           /\ unwrap(controller).max_in_flight
                  = min(unwrap(rounds).start_amount * 2^(unwrap(rounds).completed), U64_MAX)
           /\ ~the_call.panicked

\* two rounds took the window from 1000 to 4000
C24_Witness ==
    /\ is_some(controller)
    /\ is_some(rounds)
    /\ unwrap(rounds).start_amount = 1000
    /\ unwrap(rounds).completed = 2
    /\ unwrap(controller).max_in_flight = 4000
    /\ unwrap(controller).packets = no_packets

\* C25: reject(id, "T04") of a packet in flight switches to AvoidCongestion and
\* sets max_in_flight to max(1, floor(max_in_flight / decrease_factor))
C25_Original ==
    ( /\ is_some(called)
      /\ the_call.name = "reject"
      /\ the_call.arguments[2] = "T04"
      /\ was_in_flight(the_call.arguments[1]) )
        => /\ unwrap(controller).state = "AvoidCongestion"
           /\ unwrap(controller).max_in_flight
                  = max(1, the_call.before.max_in_flight \div the_call.before.decrease_factor)

\* what get_max_amount() is to return for a controller: what is left of the
\* window, capped by the max_packet_amount if one is set
amount_left(self) ==
    IF is_some(self.max_packet_amount)
    THEN min(self.max_in_flight - self.amount_in_flight, unwrap(self.max_packet_amount))
    ELSE self.max_in_flight - self.amount_in_flight

\* C26: after any sequence of prepare, fulfill and reject calls get_max_amount()
\* returns min(max_in_flight - amount_in_flight, max_packet_amount), or
\* max_in_flight - amount_in_flight when no max_packet_amount is set
C26_Original ==
    (is_some(called) /\ the_call.name = "get_max_amount")
        => /\ the_call.returned.ok
           /\ the_call.returned.value = amount_left(the_call.before)

\* C27: after the reject with F08 of a packet in flight, get_max_amount() is
\* less than the amount of the rejected packet
C27_Original ==
    ( /\ is_some(called)
      /\ the_call.name = "reject"
      /\ the_call.arguments[2] = "F08"
      /\ was_in_flight(the_call.arguments[1]) )
        => /\ get_max_amount(unwrap(controller)).ok
           /\ get_max_amount(unwrap(controller)).value
                  < the_call.before.packets[the_call.arguments[1]]

\* C28: in AvoidCongestion, fulfill of a packet in flight sets max_in_flight to
\* min(u64::MAX, max_in_flight + increase_amount), whatever the amount of the
\* packet: the addition stops at u64::MAX
C28_AdditiveIncrease ==
    ( /\ is_some(called)
      /\ the_call.name = "fulfill"
      /\ was_in_flight(the_call.arguments[1])
      /\ the_call.before.state = "AvoidCongestion" )
        => /\ unwrap(controller).state = "AvoidCongestion"
           /\ unwrap(controller).max_in_flight
                  = min(U64_MAX, the_call.before.max_in_flight
                                     + the_call.before.increase_amount)

\* a packet of 400 was fulfilled in AvoidCongestion and the window grew from 500
\* to u64::MAX, where it stops
C28_Witness ==
    /\ is_some(called)
    /\ the_call.name = "fulfill"
    /\ was_in_flight(the_call.arguments[1])
    /\ the_call.before.state = "AvoidCongestion"
    /\ the_call.before.packets[the_call.arguments[1]] = 400
    /\ the_call.before.max_in_flight = 500
    /\ the_call.before.increase_amount = U64_MAX
    /\ unwrap(controller).max_in_flight = U64_MAX

\* the amounts of the packets in flight, added up
RECURSIVE amount_of_packets(_)
amount_of_packets(packets) ==
    IF DOMAIN packets = {} THEN 0
    ELSE LET id == CHOOSE key \in DOMAIN packets : TRUE
         IN  packets[id] + amount_of_packets(remove(packets, id))

\* C36: when every packet was prepared with an amount of at most
\* get_max_amount() at the time, amount_in_flight is at most max_in_flight
\* after every call, also after a T04 reject while other packets are in
\* flight, so that the subtraction in get_max_amount() does not underflow
C36_Original ==
    (is_some(controller) /\ the_call.within_window)
        => /\ unwrap(controller).amount_in_flight <= unwrap(controller).max_in_flight
           /\ get_max_amount(unwrap(controller)).ok

\* C37: after every call amount_in_flight is the sum of the amounts in the
\* packets map, and 0 when no packet is left in it, also after a prepare with
\* an id that is in flight, a second fulfill or reject of an id, the fulfill
\* or reject of an id that was never prepared, and a prepare of amount 0
C37_Original ==
    is_some(controller)
        => unwrap(controller).amount_in_flight
               = amount_of_packets(unwrap(controller).packets)

----------------------------------------------------------------------------
(* The amounts and the frames of the sender's money packets *)

\* the amount of the Prepare at `next`
amount_at_next == IF awaiting = "handle_request" THEN HandledPrepare.amount ELSE 0
\* total amount of the Prepares that were fulfilled: the Prepares sent less the
\* one at `next` and the rejected ones, which add up to `restored`
fulfilled_amount == sum_of_amounts(prepares) - amount_at_next - restored
\* a Fulfill of a money Prepare was received (money Prepares have amounts > 0)
money_was_fulfilled == fulfilled_amount > 0

\* C29: a money Prepare carries an amount that is > 0, at most the source_amount
\* left and at most the controller's get_max_amount() when it is sent;
\* source_amount goes down by that amount, and back up by it when the Prepare
\* is rejected; between iterations source_amount plus the amounts of the
\* fulfilled Prepares is the initial source_amount
C29_MoneyAmounts ==
    /\ [][(Sends /\ is_money(SentPrepare))
             => /\ SentPrepare.amount > 0
                /\ SentPrepare.amount <= sender.source_amount
                /\ cc_get_max_amount(sender.congestion_controller).ok
                /\ SentPrepare.amount
                      <= cc_get_max_amount(sender.congestion_controller).value
                /\ sender'.source_amount = sender.source_amount - SentPrepare.amount]_vars
    /\ [][(Handles /\ is_money(HandledPrepare))
             => sender'.source_amount
                   = IF rejected(last_response'.outcome)
                     THEN sender.source_amount + HandledPrepare.amount
                     ELSE sender.source_amount]_vars
    /\ [](awaiting # "handle_request"
            => sender.source_amount + fulfilled_amount = sender.receipt.sent_amount)

\* 100 to send: the first Prepare, of 100, was rejected and given back, the
\* second, of the 50 the controller then allowed, was fulfilled
C29_Witness ==
    /\ Len(prepares) = 2
    /\ prepares[1].amount = TestSourceAmount
    /\ restored = TestSourceAmount
    /\ is_money(prepares[2])
    /\ prepares[2].amount = TestSourceAmount \div 2
    /\ fulfilled(last_response.outcome)
    /\ sender.source_amount = TestSourceAmount \div 2

\* C30: a money Prepare sent before any Fulfill was received carries the frames
\* StreamMoney{stream_id 1, shares 1} and ConnectionNewAddress{source_account},
\* one sent after a Fulfill only the StreamMoney frame, and
\* should_send_source_account, once cleared, stays cleared
C30_SourceAccountFrame ==
    /\ [][(Sends /\ is_money(SentPrepare))
             => SentPrepare.frames
                   = IF money_was_fulfilled
                     THEN << [frame |-> "StreamMoney", stream_id |-> 1, shares |-> 1] >>
                     ELSE << [frame |-> "StreamMoney", stream_id |-> 1, shares |-> 1],
                             [frame |-> "ConnectionNewAddress",
                              source_account |-> ilp_address] >>]_vars
    /\ [][~sender.should_send_source_account
             => ~sender'.should_send_source_account]_vars
    /\ [](money_was_fulfilled => ~sender.should_send_source_account)

\* the first Prepare was rejected, the second carried the address again and was
\* fulfilled, the third carried the StreamMoney frame alone
C30_Witness ==
    /\ Len(prepares) = 3
    /\ restored = prepares[1].amount
    /\ Len(prepares[1].frames) = 2
    /\ Len(prepares[2].frames) = 2
    /\ prepares[2].frames[2].frame = "ConnectionNewAddress"
    /\ is_money(prepares[3])
    /\ Len(prepares[3].frames) = 1
    /\ ~sender.should_send_source_account

----------------------------------------------------------------------------
(* The order of the sender's states and of the checks of its loop *)

\* the connection close was sent
close_was_sent == \E i \in 1..Len(prepares) : is_close(prepares[i])

\* C31: the state moves SendMoney -> Closing -> Closed and never back; the
\* connection close (amount 0, prepare_amount 0, one ConnectionClose{NoError,
\* ""} frame) is sent at most once and only when source_amount is 0; no money
\* Prepare is sent after it; Ok is returned only after the close was sent and
\* with source_amount 0
C31_ForwardOnly ==
    /\ [][/\ sender.state = "Closing" => sender'.state \in {"Closing", "Closed"}
          /\ sender.state = "Closed" => sender'.state = "Closed"]_vars
    /\ [][(Sends /\ is_close(SentPrepare))
             => /\ ~close_was_sent
                /\ sender.source_amount = 0
                /\ sender.state = "SendMoney"
                /\ sender'.state = "Closing"
                /\ SentPrepare.amount = 0
                /\ SentPrepare.prepare_amount = 0
                /\ SentPrepare.frames
                      = << [frame |-> "ConnectionClose", code |-> "NoError",
                            message |-> <<>>] >>]_vars
    /\ [][(Sends /\ is_money(SentPrepare))
             => ~close_was_sent /\ sender.state = "SendMoney"]_vars
    /\ [](result = "Ok"
            => close_was_sent /\ sender.source_amount = 0 /\ sender.state = "Closed")

\* a send of 100 went through a rejected and a fulfilled money Prepare and the
\* close, and returned Ok
C31_Witness ==
    /\ result = "Ok"
    /\ Len(prepares) = 3
    /\ is_money(prepares[1])
    /\ is_money(prepares[2])
    /\ is_close(prepares[3])
    /\ sender.state = "Closed"
    /\ sender.receipt.sent_amount = TestSourceAmount

\* C32: an iteration checks the latched error first, then the 30 seconds since
\* the last Fulfill, then source_amount == 0: with an error latched it returns
\* the error, timed out or not; timed out it returns TimeoutError, also when
\* everything was fulfilled and only the close took the time; Ok is returned
\* only with no error latched and the timer not expired
C32_CheckOrder ==
    /\ [][(result = "running" /\ is_some(sender.error))
             => /\ result' = unwrap(sender.error).kind
                /\ ~Sends]_vars
    /\ [][(/\ result = "running"
           /\ awaiting = "none"
           /\ is_none(sender.error)
           /\ timed_out(sender))
             => /\ result' = "TimeoutError"
                /\ ~Sends]_vars
    /\ [][(result = "running" /\ result' = "Ok")
             => /\ is_none(sender.error)
                /\ ~timed_out(sender)
                /\ sender.source_amount = 0]_vars

\* everything was fulfilled, the close was answered with a retryable Reject
\* after 30 seconds, and send_money returned TimeoutError
C32_Witness ==
    /\ result = "TimeoutError"
    /\ sender.source_amount = 0
    /\ sender.state = "Closing"
    /\ close_was_sent
    /\ fulfilled_amount = sender.receipt.sent_amount
    /\ fulfilled_amount > 0
    /\ is_none(sender.error)

----------------------------------------------------------------------------
(* What the sender counts as delivered *)

\* the latest response was a Fulfill whose data is a STREAM packet
fulfilled_with_packet(response) == fulfilled(response.outcome) /\ response.decoded
\* what the response adds to delivered_amount: the prepare_amount of the packet
\* in the data of a Fulfill, if the packet is of type Fulfill
counted(response) ==
    IF fulfilled_with_packet(response) /\ response.ilp_packet_type = "Fulfill"
    THEN response.prepare_amount
    ELSE 0

\* C35: a Fulfill whose data decrypts to a STREAM packet of another type than
\* Fulfill adds nothing to delivered_amount and no asset details are read from
\* it; delivered_amount is 0 before the first response and every response to a
\* money Prepare or to the close adds the prepare_amount of its packet if it is
\* a Fulfill whose data decrypts to a packet of type Fulfill, and nothing
\* otherwise (the addition is one of u64: where it overflows it wraps, or
\* panics in a debug build)
C35_DeliveredAmount ==
    /\ [](last_response = NoResponse => sender.receipt.delivered_amount = 0)
    /\ [][IF Handles
          THEN IF add_overflows(sender.receipt.delivered_amount, counted(last_response'))
               THEN \/ result' = "panic"
                    \/ sender'.receipt.delivered_amount
                          = wrapping_add(sender.receipt.delivered_amount,
                                         counted(last_response'))
               ELSE sender'.receipt.delivered_amount
                        = sender.receipt.delivered_amount + counted(last_response')
          ELSE sender'.receipt.delivered_amount = sender.receipt.delivered_amount]_vars
    /\ [][( /\ Handles
            /\ fulfilled_with_packet(last_response')
            /\ last_response'.ilp_packet_type # "Fulfill" )
             => sender'.receipt = sender.receipt]_vars

\* the money Prepare was fulfilled with a packet of type Fulfill that reports
\* 100, the close with a packet of type Reject that reports an amount and
\* carries asset details: 100 is delivered and no asset details are set
C35_Witness ==
    /\ Len(prepares) = 2
    /\ is_close(prepares[2])
    /\ restored = 0
    /\ fulfilled_with_packet(last_response)
    /\ last_response.ilp_packet_type = "Reject"
    /\ last_response.asset_codes # <<>>
    /\ sender.receipt.delivered_amount = TestSourceAmount
    /\ sender.receipt.delivered_asset_code = None

----------------------------------------------------------------------------
(* The sender's handlers on the same responses in two orders *)

\* pairs of responses handled
MaxPairs == 1

\* the future once the response to a packet of amount 0 is handled; `panicked`
\* once a handler has panicked in increment_delivered_amount, which leaves
\* what handle_fulfill did before it
responded(handling, overflows_panic, response) ==
    IF handling.panicked THEN handling
    ELSE IF /\ overflows_panic
            /\ response.kind = "Fulfill"
            /\ fulfill_overflows(handling.sender, response)
    THEN [handling EXCEPT
             !.panicked = TRUE,
             !.sender = [handle_response(@, handling.sender.sequence, 0, response)
                            EXCEPT !.receipt.delivered_amount =
                                      handling.sender.receipt.delivered_amount]]
    ELSE [handling EXCEPT
             !.sender = handle_response(@, handling.sender.sequence, 0, response)]

\* the ConnectionAssetDetails frames in the data of a response
asset_details(response) ==
    LET packet == from_encrypted(response.data)
    IN  IF is_some(packet)
        THEN {unwrap(packet).frames[i] : i \in
                 {j \in 1..Len(unwrap(packet).frames) :
                     unwrap(packet).frames[j].frame = "ConnectionAssetDetails"}}
        ELSE {}

HandlerInit ==
    /\ \E overflows_panic \in BOOLEAN :
           orders = Some([forward |-> [sender |-> new_sender(TestSourceAmount),
                                       panicked |-> FALSE],
                          backward |-> [sender |-> new_sender(TestSourceAmount),
                                        panicked |-> FALSE],
                          overflows_panic |-> overflows_panic,
                          pairs |-> 0,
                          details |-> {}])
    /\ data_stream = None
    /\ money_stream = None
    /\ sender_at_rest
    /\ codec_at_rest
    /\ receiver_at_rest
    /\ controller_at_rest

\* two responses arrive: one future handles them as first, second, the other
\* as second, first
HandlePair(first, second) ==
    /\ is_some(orders)
    /\ unwrap(orders).pairs < MaxPairs
    /\ orders' = Some([unwrap(orders) EXCEPT
           !.forward = responded(responded(@, unwrap(orders).overflows_panic, first),
                                 unwrap(orders).overflows_panic, second),
           !.backward = responded(responded(@, unwrap(orders).overflows_panic, second),
                                  unwrap(orders).overflows_panic, first),
           !.pairs = @ + 1,
           !.details = @ \cup asset_details(first) \cup asset_details(second)])
    /\ UNCHANGED <<data_stream, money_stream>>
    /\ UNCHANGED <<sender_vars, codec_vars, receiver_vars, controller_vars>>

\* the responses are those to a packet of amount 1
HandlerNext ==
    \E first \in Responses(1), second \in Responses(1) :
        HandlePair(first, second)

HandlerSpec == HandlerInit /\ [][HandlerNext]_vars

\* C34: handling two responses in either order leaves the same receipt: the
\* same delivered_amount, delivered_asset_code and delivered_asset_scale
C34_Original ==
    (is_some(orders) /\ ~unwrap(orders).forward.panicked /\ ~unwrap(orders).backward.panicked)
        => unwrap(orders).forward.sender.receipt = unwrap(orders).backward.sender.receipt

\* C34 (amended): handling two responses in either order leaves the same
\* delivered_amount, and a handler panics on overflow in one order if and only
\* if one does in the other; the asset code and scale are those of the first
\* response handled that sets them, and they are the same in either order
\* when the responses do not carry different ConnectionAssetDetails
C34_Amended ==
    is_some(orders)
        => /\ unwrap(orders).forward.panicked = unwrap(orders).backward.panicked
           /\ ~unwrap(orders).forward.panicked
                 => /\ unwrap(orders).forward.sender.receipt.delivered_amount
                          = unwrap(orders).backward.sender.receipt.delivered_amount
                    /\ Cardinality(unwrap(orders).details) <= 1
                          => unwrap(orders).forward.sender.receipt
                                = unwrap(orders).backward.sender.receipt

\* a Fulfill that delivers and a Reject, both with the asset details XYZ in
\* their data, were handled in both orders: the receipts have the delivered
\* amount and XYZ
C34_Witness ==
    /\ is_some(orders)
    /\ unwrap(orders).pairs = 1
    /\ unwrap(orders).details = {AssetXYZ}
    /\ unwrap(orders).forward.sender.rejected_packets = 1
    /\ unwrap(orders).forward.sender.receipt.delivered_amount = 1
    /\ unwrap(orders).forward.sender.receipt.delivered_asset_code = Some("XYZ")
    /\ unwrap(orders).backward.sender.receipt = unwrap(orders).forward.sender.receipt

----------------------------------------------------------------------------
(* The DataStream of src/stream: incoming chunks and the reads of them *)

\* longest chunk pushed, most bytes pushed in all, and largest buffer read into
MaxChunk == 2
MaxData == 4
MaxBuf == 2

\* the bytes of the chunks
DataBytes == {97, 98}

\* the chunks that arrive: some bytes, at most MaxChunk of them
Chunks == Lists(DataBytes, MaxChunk) \ {<<>>}

\* the lengths of the buffers a reader hands to read
BufferSizes == 0..MaxBuf

\* what connection.try_handle_incoming() returns to the stream that calls it:
\* Ok(()) or Err(())
TryHandleIncoming == {Ok(<<>>), Err(<<>>)}

\* HashMap::new
HashMap_new == <<>>

\* the DataStream of DataMoneyStream::new: open, nothing buffered, offset 0
new_data_stream ==
    [state |-> "Open",
     incoming |-> [offset |-> 0, buffer |-> HashMap_new]]

\* DataStream::push_incoming_data
push_incoming_data(self, data, offset) ==
    [self EXCEPT !.incoming.buffer = insert(@, offset, data)]

\* the from_buf.len() >= buf.len() branch of read: the buffer is filled, what is
\* left of the chunk goes back into the map, and the offset is advanced before
\* and after that
read_split(self, from_buf, buf_len) ==
    LET to_copy == Take(from_buf, buf_len)
        rest == Drop(from_buf, buf_len)
        offset == self.incoming.offset + Len(to_copy)
        buffer == remove(self.incoming.buffer, self.incoming.offset)
    IN  [stream |-> [self EXCEPT
                        !.incoming.buffer =
                            IF rest # <<>> THEN insert(buffer, offset, rest) ELSE buffer,
                        !.incoming.offset = offset + Len(to_copy)],
         read |-> Ok(Len(to_copy)),
         bytes |-> to_copy]

\* the else branch of read: the whole chunk is copied to the start of the buffer
read_whole(self, from_buf) ==
    [stream |-> [self EXCEPT
                    !.incoming.buffer = remove(@, self.incoming.offset),
                    !.incoming.offset = @ + Len(from_buf)],
     read |-> Ok(Len(from_buf)),
     bytes |-> from_buf]

\* <DataStream as Read>::read into a buffer of buf_len bytes, with what
\* connection.try_handle_incoming() returned to it: the stream after it, what it
\* returned, and the bytes it copied into the buffer
read(self, buf_len, try_handle_incoming) ==
    IF ~try_handle_incoming.ok
    THEN [stream |-> self, read |-> Err("Other"), bytes |-> <<>>]
    ELSE IF self.incoming.offset \in DOMAIN self.incoming.buffer
    THEN LET from_buf == self.incoming.buffer[self.incoming.offset]
         IN  IF Len(from_buf) >= buf_len
             THEN read_split(self, from_buf, buf_len)
             ELSE read_whole(self, from_buf)
    ELSE IF self.state # "Open"
    THEN [stream |-> self, read |-> Ok(0), bytes |-> <<>>]
    ELSE [stream |-> self, read |-> Err("WouldBlock"), bytes |-> <<>>]

\* DataMoneyStream::set_closing and set_closed, on the state a stream shares
set_closing(self) == [self EXCEPT !.state = "Closing"]
set_closed(self) == [self EXCEPT !.state = "Closed"]

\* a DataStream is created; nothing was pushed to it or read from it
DataStreamInit ==
    /\ data_stream = Some([stream |-> new_data_stream,
                           pushed |-> <<>>,
                           taken |-> <<>>,
                           last_read |-> None])
    /\ orders = None
    /\ money_stream = None
    /\ sender_at_rest
    /\ codec_at_rest
    /\ receiver_at_rest
    /\ controller_at_rest

\* the connection pushes the next chunk, at the offset where the last one ended
PushIncomingData(data) ==
    /\ is_some(data_stream)
    /\ Len(unwrap(data_stream).pushed) + Len(data) <= MaxData
    /\ data_stream' = Some([unwrap(data_stream) EXCEPT
           !.stream = push_incoming_data(@, data, Len(unwrap(data_stream).pushed)),
           !.pushed = @ \o data,
           !.last_read = None])
    /\ UNCHANGED <<orders, money_stream>>
    /\ UNCHANGED <<sender_vars, codec_vars, receiver_vars, controller_vars>>

\* the reader calls read with a buffer of buf_len bytes
ReadData(buf_len, try_handle_incoming) ==
    /\ is_some(data_stream)
    /\ LET returns == read(unwrap(data_stream).stream, buf_len, try_handle_incoming)
       IN  data_stream' = Some([unwrap(data_stream) EXCEPT
               !.stream = returns.stream,
               !.taken = @ \o returns.bytes,
               !.last_read = Some([buf_len |-> buf_len, read |-> returns.read])])
    /\ UNCHANGED <<orders, money_stream>>
    /\ UNCHANGED <<sender_vars, codec_vars, receiver_vars, controller_vars>>

\* the connection calls set_closing, whatever the state of the stream
DataSetClosing ==
    /\ is_some(data_stream)
    /\ data_stream' = Some([unwrap(data_stream) EXCEPT
           !.stream = set_closing(@), !.last_read = None])
    /\ UNCHANGED <<orders, money_stream>>
    /\ UNCHANGED <<sender_vars, codec_vars, receiver_vars, controller_vars>>

\* the connection calls set_closed, whatever the state of the stream
DataSetClosed ==
    /\ is_some(data_stream)
    /\ data_stream' = Some([unwrap(data_stream) EXCEPT
           !.stream = set_closed(@), !.last_read = None])
    /\ UNCHANGED <<orders, money_stream>>
    /\ UNCHANGED <<sender_vars, codec_vars, receiver_vars, controller_vars>>

DataStreamNext ==
    \/ \E data \in Chunks : PushIncomingData(data)
    \/ \E buf_len \in BufferSizes, try_handle_incoming \in TryHandleIncoming :
           ReadData(buf_len, try_handle_incoming)
    \/ DataSetClosing
    \/ DataSetClosed

DataStreamSpec == DataStreamInit /\ [][DataStreamNext]_vars

\* the first bytes of a sequence of bytes
is_prefix(bytes, of_bytes) ==
    /\ Len(bytes) <= Len(of_bytes)
    /\ bytes = Take(of_bytes, Len(bytes))

\* C39: for chunks pushed at contiguous offsets from 0 the bytes the reads
\* returned, one after the other, are the first bytes of the chunks pushed, one
\* after the other; after each read the incoming offset is the number of bytes
\* returned so far; and a read into a buffer with room finds no bytes
\* (WouldBlock, or Ok(0) on a stream that is not open) only when all bytes
\* pushed were returned
C39_Original ==
    is_some(data_stream)
        => /\ is_prefix(unwrap(data_stream).taken, unwrap(data_stream).pushed)
           /\ is_some(unwrap(data_stream).last_read)
                 => /\ unwrap(data_stream).stream.incoming.offset
                          = Len(unwrap(data_stream).taken)
                    /\ ( /\ unwrap(unwrap(data_stream).last_read).buf_len > 0
                         /\ \/ /\ ~unwrap(unwrap(data_stream).last_read).read.ok
                               /\ unwrap(unwrap(data_stream).last_read).read.value
                                      = "WouldBlock"
                            \/ /\ unwrap(unwrap(data_stream).last_read).read.ok
                               /\ unwrap(unwrap(data_stream).last_read).read.value = 0 )
                           => unwrap(data_stream).taken = unwrap(data_stream).pushed

----------------------------------------------------------------------------
(* The MoneyStream of src/stream: money received and the polls that report it *)

\* clones of the stream that poll, polls started in all, and most money received
MaxClones == 2
MaxPolls == 3
MaxReceived == 3

\* the clones of the MoneyStream, each polled by a task of its own
Clones == 1..MaxClones

\* the amounts of the incoming StreamMoney frames
ReceivedAmounts == {1, 2}

\* the MoneyStream of DataMoneyStream::new: open, nothing received or reported
new_money_stream ==
    [state |-> "Open",
     received |-> 0,
     last_reported_received |-> 0]

\* MoneyStream::add_received
add_received(self, amount) ==
    [self EXCEPT !.received = wrapping_add(@, amount)]

\* a clone that is not inside poll
not_polling ==
    [at |-> "idle", total_received |-> 0, last_reported_received |-> 0]

\* what poll does after its two loads, with the values it loaded: the
\* subtraction, then the store and Ready(Some(amount)), or Ready(None) on a
\* stream that is not open, or NotReady
poll(self, total_received, last_reported_received) ==
    LET amount_received == checked_sub(total_received, last_reported_received)
    IN  IF ~amount_received.ok
        THEN [stream |-> self, polled |-> "panic", amount |-> 0]
        ELSE IF amount_received.value > 0
        THEN [stream |-> [self EXCEPT !.last_reported_received = total_received],
              polled |-> "Some", amount |-> amount_received.value]
        ELSE IF self.state # "Open"
        THEN [stream |-> self, polled |-> "None", amount |-> 0]
        ELSE [stream |-> self, polled |-> "NotReady", amount |-> 0]

\* the amounts the polls yielded so far, added up
RECURSIVE yielded_amount(_)
yielded_amount(polled) ==
    IF polled = <<>> THEN 0 ELSE Head(polled).amount + yielded_amount(Tail(polled))

\* a MoneyStream and its clones are created; no clone is polling
MoneyStreamInit ==
    /\ money_stream = Some([stream |-> new_money_stream,
                            clones |-> [clone \in Clones |-> not_polling],
                            polled |-> <<>>,
                            polls |-> 0])
    /\ orders = None
    /\ data_stream = None
    /\ sender_at_rest
    /\ codec_at_rest
    /\ receiver_at_rest
    /\ controller = None
    /\ checks \in BOOLEAN
    /\ called = None
    /\ rounds = None

\* the connection adds the amount of an incoming StreamMoney frame
AddReceived(amount) ==
    /\ is_some(money_stream)
    /\ unwrap(money_stream).stream.received + amount <= MaxReceived
    /\ money_stream' = Some([unwrap(money_stream) EXCEPT
           !.stream = add_received(@, amount)])
    /\ UNCHANGED <<orders, data_stream>>
    /\ UNCHANGED <<sender_vars, codec_vars, receiver_vars, controller_vars>>

\* a task polls a clone: `self.connection.try_handle_incoming()?` returns the
\* Err(()) of the connection at once, or poll goes on and loads received
PollLoadReceived(clone, try_handle_incoming) ==
    /\ is_some(money_stream)
    /\ unwrap(money_stream).polls < MaxPolls
    /\ unwrap(money_stream).clones[clone].at = "idle"
    /\ money_stream' =
           IF try_handle_incoming.ok
           THEN Some([unwrap(money_stream) EXCEPT
                    !.clones[clone] =
                        [at |-> "loaded_received",
                         total_received |-> unwrap(money_stream).stream.received,
                         last_reported_received |-> 0],
                    !.polls = @ + 1])
           ELSE Some([unwrap(money_stream) EXCEPT
                    !.polled = Append(@, [polled |-> "Err",
                                          amount |-> 0,
                                          total_received |-> unwrap(money_stream).stream.received,
                                          received |-> unwrap(money_stream).stream.received,
                                          yielded_before |-> yielded_amount(@),
                                          state |-> unwrap(money_stream).stream.state]),
                    !.polls = @ + 1])
    /\ UNCHANGED <<orders, data_stream>>
    /\ UNCHANGED <<sender_vars, codec_vars, receiver_vars, controller_vars>>

\* poll loads last_reported_received
PollLoadLastReported(clone) ==
    /\ is_some(money_stream)
    /\ unwrap(money_stream).clones[clone].at = "loaded_received"
    /\ money_stream' = Some([unwrap(money_stream) EXCEPT
           !.clones[clone] =
               [@ EXCEPT !.at = "loaded_last_reported",
                         !.last_reported_received =
                             unwrap(money_stream).stream.last_reported_received]])
    /\ UNCHANGED <<orders, data_stream>>
    /\ UNCHANGED <<sender_vars, codec_vars, receiver_vars, controller_vars>>

\* poll subtracts, stores what it reports or reads the state, and returns; the
\* history keeps what it returned, what it had loaded, and what the stream had
\* received, had been polled for and was at that time
PollReturn(clone) ==
    /\ is_some(money_stream)
    /\ unwrap(money_stream).clones[clone].at = "loaded_last_reported"
    /\ LET self == unwrap(money_stream).stream
           loaded == unwrap(money_stream).clones[clone]
           returns == poll(self, loaded.total_received, loaded.last_reported_received)
       IN  money_stream' = Some([unwrap(money_stream) EXCEPT
               !.stream = returns.stream,
               !.clones[clone] = not_polling,
               !.polled = Append(@, [polled |-> returns.polled,
                                     amount |-> returns.amount,
                                     total_received |-> loaded.total_received,
                                     received |-> self.received,
                                     yielded_before |-> yielded_amount(@),
                                     state |-> self.state])])
    /\ UNCHANGED <<orders, data_stream>>
    /\ UNCHANGED <<sender_vars, codec_vars, receiver_vars, controller_vars>>

\* the connection calls set_closing, whatever the state of the stream
MoneySetClosing ==
    /\ is_some(money_stream)
    /\ money_stream' = Some([unwrap(money_stream) EXCEPT !.stream = set_closing(@)])
    /\ UNCHANGED <<orders, data_stream>>
    /\ UNCHANGED <<sender_vars, codec_vars, receiver_vars, controller_vars>>

\* the connection calls set_closed, whatever the state of the stream
MoneySetClosed ==
    /\ is_some(money_stream)
    /\ money_stream' = Some([unwrap(money_stream) EXCEPT !.stream = set_closed(@)])
    /\ UNCHANGED <<orders, data_stream>>
    /\ UNCHANGED <<sender_vars, codec_vars, receiver_vars, controller_vars>>

MoneyStreamNext ==
    \/ \E amount \in ReceivedAmounts : AddReceived(amount)
    \/ \E clone \in Clones, try_handle_incoming \in TryHandleIncoming :
           PollLoadReceived(clone, try_handle_incoming)
    \/ \E clone \in Clones : PollLoadLastReported(clone)
    \/ \E clone \in Clones : PollReturn(clone)
    \/ MoneySetClosing
    \/ MoneySetClosed

MoneyStreamSpec == MoneyStreamInit /\ [][MoneyStreamNext]_vars

\* C40: whatever the order of the add_received calls and of the steps of the
\* polls on the clones, no poll panics, the amounts the polls yielded add up to
\* at most what was received, and to exactly that after a poll that began when
\* all of it was received and that the connection did not fail; and a poll
\* yields None only when nothing of what was received when it began is
\* unreported and the stream is not open
C40_Original ==
    is_some(money_stream)
        => /\ yielded_amount(unwrap(money_stream).polled)
                  <= unwrap(money_stream).stream.received
           /\ \A i \in 1..Len(unwrap(money_stream).polled) :
                  LET returns == unwrap(money_stream).polled[i]
                  IN  /\ returns.polled # "panic"
                      /\ (returns.polled # "Err" /\ returns.total_received = returns.received)
                            => returns.yielded_before + returns.amount = returns.received
                      /\ returns.polled = "None"
                            => /\ returns.yielded_before >= returns.total_received
                               /\ returns.state # "Open"
====
